---- MODULE Spec2Model ----
(***************************************************************************)
(* A model of the ontology layer of ODLM-Ontology: OntologyService         *)
(* (code/core/ontology.py) on top of Neo4jService                          *)
(* (code/core/databases/neo4j/neo4j_service.py).                           *)
(*                                                                         *)
(* The store is a labeled-property graph: a set of nodes (identity, label  *)
(* set, name, properties) and a bag of directed typed edges between node   *)
(* identities.  Cypher queries are modelled by what they match and write.  *)
(***************************************************************************)
EXTENDS Integers, Sequences, FiniteSets, TLC

VARIABLES nodes, edges, callers, flags, last

vars == <<nodes, edges, callers, flags, last>>

(***************************************************************************)
(* Bounds of the model.                                                    *)
(***************************************************************************)
\* number of concurrent callers of Neo4jService.create_relationship
NumCallers == 2

\* create_relationship calls started in one behaviour
MaxRelCalls == 4

\* SUBCLASS_OF edges and HAS_PROPERTY edges of a schema drawn for the
\* inheritance queries
MaxSubclass == 3

MaxHasProperty == 3

(***************************************************************************)
(* The graph store.                                                        *)
(***************************************************************************)
\* "no value" (Python None / a missing key)
None == "None"

\* A node: identity, labels, the name property, instance_of, the other
\* scalar properties (key -> value) and whether updated_at has been set.
Node(id, labels, name, instance_of, props, updated) ==
    [id |-> id, labels |-> labels, name |-> name, instance_of |-> instance_of,
     props |-> props, updated |-> updated]

\* the empty property map
NoProps == [k \in {} |-> None]

\* An edge: the identities it joins, its type and the `required` attribute
\* (carried by HAS_PROPERTY edges, FALSE on every other edge).
Edge(src, type, dst, required) ==
    [src |-> src, type |-> type, dst |-> dst, required |-> required]

\* edges is a bag of Edge records: a function from the edges present to
\* how many parallel copies the store holds.
EdgeCount(E, e) == IF e \in DOMAIN E THEN E[e] ELSE 0

NoEdges == [e \in {} |-> 0]

\* number of edges of `type` from node identity a to node identity b
CountBetween(E, a, type, b) ==
    LET ks == {e \in DOMAIN E : e.src = a /\ e.type = type /\ e.dst = b}
        RECURSIVE Sum(_)
        Sum(S) == IF S = {} THEN 0
                  ELSE LET x == CHOOSE y \in S : TRUE IN E[x] + Sum(S \ {x})
    IN Sum(ks)

\* CREATE (a)-[:type]->(b) once for every edge of the set `new`
AddEdges(E, new) ==
    [e \in DOMAIN E \cup new |-> EdgeCount(E, e) + (IF e \in new THEN 1 ELSE 0)]

\* DELETE of every copy of the edges in `gone`
RemoveEdges(E, gone) == [e \in DOMAIN E \ gone |-> E[e]]

\* MATCH (n:label {name: $name}); label None is a pattern without label
Match(N, label, name) ==
    {n \in N : n.name = name /\ (label = None \/ label \in n.labels)}

\* MATCH (n:{label} {name: $name}) with the label formatted into the query
\* text: the label is whatever the text says, "None" for a missing one
MatchLabeled(N, label, name) == {n \in N : n.name = name /\ label \in n.labels}

\* smallest identity not in use
NewId(N) ==
    CHOOSE i \in 1..(Cardinality(N) + 1) :
        /\ i \notin {n.id : n \in N}
        /\ \A j \in 1..(i - 1) : j \in {n.id : n \in N}

(***************************************************************************)
(* Neo4jService.create_relationship: an existence check and a CREATE, two  *)
(* round trips to the store.                                               *)
(***************************************************************************)
\* The records of check_query: one per pair of nodes matched by the two
\* patterns, with EXISTS((from)-[:type]->(to)).
CheckRows(N, E, fromPat, toPat, type) ==
    {[from |-> a.id, to |-> b.id,
      relationship_exists |-> CountBetween(E, a.id, type, b.id) > 0] :
        a \in Match(N, fromPat.label, fromPat.name),
        b \in Match(N, toPat.label, toPat.name)}

\* run_query_value(check_query, key="relationship_exists"): the values the
\* call may obtain.  No record gives None (falsy); result.single() hands
\* back one record of several, in the store's order, which is not fixed.
CheckValues(N, E, fromPat, toPat, type) ==
    LET rows == CheckRows(N, E, fromPat, toPat, type)
    IN IF rows = {} THEN {FALSE} ELSE {r.relationship_exists : r \in rows}

\* The edges written by MATCH (from) MATCH (to) CREATE (from)-[r:type]->(to):
\* one per pair of matched nodes.
CreatedEdgesGuarded(N, E, fromPat, toPat, type, required) ==
    {e \in {Edge(a.id, type, b.id, required) :
              a \in Match(N, fromPat.label, fromPat.name),
              b \in Match(N, toPat.label, toPat.name)} :
        CountBetween(E, e.src, type, e.dst) = 0}

CreatedEdges(N, E, fromPat, toPat, type, required) ==
    {Edge(a.id, type, b.id, required) :
        a \in Match(N, fromPat.label, fromPat.name),
        b \in Match(N, toPat.label, toPat.name)}

\* the statistics returned when the check finds the relationship
AlreadyExists == [status |-> "already_exists", relationships_created |-> 0]

\* the statistics of execute_write (no status key)
WriteStats(n) == [status |-> None, relationships_created |-> n]

\* The check is skipped and the CREATE always issued.
RelCheckBlind(N, E, fromPat, toPat, type) == {FALSE}

RelCheck(N, E, fromPat, toPat, type) ==
    CheckValues(N, E, fromPat, toPat, type)

(***************************************************************************)
(* Names.  Cypher's ORDER BY sorts names; NameOrder lists the names of the *)
(* model in that order.                                                    *)
(***************************************************************************)
NameOrder == <<"A", "B", "C", "Ghost", "Table", "d", "i1", "i2", "i3", "isObjectFieldOf", "o", "p", "part of", "part-of", "q">>

Rank(name) ==
    IF \E i \in 1..Len(NameOrder) : NameOrder[i] = name
    THEN CHOOSE i \in 1..Len(NameOrder) : NameOrder[i] = name
    ELSE 0

\* the node with identity id
NodeOf(N, id) == CHOOSE n \in N : n.id = id

(***************************************************************************)
(* SUBCLASS_OF* : variable-length patterns match trails, paths that use no *)
(* relationship twice.                                                     *)
(***************************************************************************)
\* how often the walk w steps from a to b
Uses(w, a, b) == Cardinality({i \in 1..(Len(w) - 1) : w[i] = a /\ w[i + 1] = b})

\* the trails of SUBCLASS_OF edges that start at node identity c, as the
\* sequences of the identities they visit (the trail of length 0 included)
Trails(E, c) ==
    LET sub == {e \in DOMAIN E : e.type = "SUBCLASS_OF"}
        RECURSIVE Grow(_)
        Grow(W) ==
            LET more == {Append(x[1], x[2].dst) :
                           x \in {y \in W \X sub :
                                    /\ y[2].src = y[1][Len(y[1])]
                                    /\ Uses(y[1], y[2].src, y[2].dst)
                                         < CountBetween(E, y[2].src, "SUBCLASS_OF", y[2].dst)}}
            IN IF more \subseteq W THEN W ELSE Grow(W \cup more)
    IN Grow({<<c>>})

\* (c)-[:SUBCLASS_OF*]->(x): the identities reached by one edge or more
Ancestors(E, c) == {w[Len(w)] : w \in {v \in Trails(E, c) : Len(v) >= 2}}

\* the pattern predicate (c)-[:SUBCLASS_OF*]->(i)-[:SUBCLASS_OF*]->(parent)
Through(E, c, i, parent) ==
    \E w \in Trails(E, c) :
        /\ w[Len(w)] = parent
        /\ \E k \in 2..(Len(w) - 1) : w[k] = i

(***************************************************************************)
(* OntologyService.get_required_properties_for_concept                     *)
(***************************************************************************)
Row(property_name, inheritance_type, source_concept) ==
    [property_name |-> property_name, inheritance_type |-> inheritance_type,
     source_concept |-> source_concept]

\* HAS_PROPERTY edges that leave node identity a
HasPropertyEdges(E, a) == {e \in DOMAIN E : e.type = "HAS_PROPERTY" /\ e.src = a}

\* A sequence holding row x.row x.n times for every x of `items`, sorted by
\* x.key (a tuple of ranks); the order among equal keys is the store's.
SortedRows(items) ==
    LET KeyLeq(k1, k2) ==
            \/ k1[1] < k2[1]
            \/ k1[1] = k2[1] /\ k1[2] <= k2[2]
        Copies(row, n) == [i \in 1..n |-> row]
        RECURSIVE Sort(_)
        Sort(S) ==
            IF S = {} THEN <<>>
            ELSE LET x == CHOOSE y \in S : \A z \in S : KeyLeq(y.key, z.key)
                 IN Copies(x.row, x.n) \o Sort(S \ {x})
    IN Sort(items)

\* direct_query: one record per HAS_PROPERTY relationship with
\* required = true from the concept to a Property node, ORDER BY p.name
DirectRows(N, E, concept_name, concept_label) ==
    SortedRows(
        {[row |-> Row(NodeOf(N, x[2].dst).name, "direct", concept_name),
          key |-> <<Rank(NodeOf(N, x[2].dst).name), 0>>,
          n |-> E[x[2]], edge |-> x[2]] :
            x \in {y \in MatchLabeled(N, concept_label, concept_name) \X DOMAIN E :
                     /\ y[2] \in HasPropertyEdges(E, y[1].id)
                     /\ y[2].required
                     /\ "Property" \in NodeOf(N, y[2].dst).labels}})

\* The NOT EXISTS subquery of inherited_query: some other concept between c
\* and parent also declares the property p.
DeclaredCloser(N, E, c, parent, p) ==
    \E i \in N :
        /\ i.id \in {c} \cup Ancestors(E, c)
        /\ \E e \in HasPropertyEdges(E, i.id) : e.dst = p
        /\ i.name # NodeOf(N, parent).name
        /\ Through(E, c, i.id, parent)

\* inherited_query: RETURN DISTINCT of the required properties of every
\* node reached by SUBCLASS_OF*, ORDER BY parent.name, p.name
InheritedRows(N, E, concept_name, concept_label) ==
    LET hits == {x \in MatchLabeled(N, concept_label, concept_name) \X DOMAIN E :
                   /\ x[2].type = "HAS_PROPERTY"
                   /\ x[2].required
                   /\ x[2].src \in Ancestors(E, x[1].id)
                   /\ "Property" \in NodeOf(N, x[2].dst).labels
                   /\ ~DeclaredCloser(N, E, x[1].id, x[2].src, x[2].dst)}
        rows == {Row(NodeOf(N, x[2].dst).name, "inherited", NodeOf(N, x[2].src).name) :
                   x \in hits}
    IN SortedRows({[row |-> r,
                    key |-> <<Rank(r.source_concept), Rank(r.property_name)>>,
                    n |-> 1] : r \in rows})

\* the names in a sequence of rows
PropertyNames(rows) == {rows[i].property_name : i \in 1..Len(rows)}

\* the inherited rows are appended without the filter on direct names
GetRequiredUnfiltered(N, E, concept_name, concept_label, include_inherited) ==
    DirectRows(N, E, concept_name, concept_label)
        \o (IF include_inherited
            THEN InheritedRows(N, E, concept_name, concept_label)
            ELSE <<>>)

GetRequiredProperties(N, E, concept_name, concept_label, include_inherited) ==
    LET direct_props == DirectRows(N, E, concept_name, concept_label)
        inherited_props == InheritedRows(N, E, concept_name, concept_label)
        direct_prop_names == PropertyNames(direct_props)
    IN IF include_inherited
       THEN direct_props
              \o SelectSeq(inherited_props,
                           LAMBDA r : r.property_name \notin direct_prop_names)
       ELSE direct_props

(***************************************************************************)
(* OntologyService.validate_instance_properties                            *)
(***************************************************************************)
\* the loop stops at the first missing property
ValidateFirstOnly(N, E, concept_name, provided, concept_label, include_inherited) ==
    LET required_props ==
            GetRequiredProperties(N, E, concept_name, concept_label, include_inherited)
        missing_props ==
            SelectSeq(required_props, LAMBDA r : r.property_name \notin provided)
        first == IF missing_props = <<>> THEN <<>> ELSE <<missing_props[1]>>
    IN [valid |-> first = <<>>,
        raised |-> first # <<>>,
        total_required |-> Len(required_props),
        missing_properties |-> first]

\* `provided` is the key set of provided_properties.  The outcome: the
\* validation_result, and whether the call raised (it does when not valid;
\* the message then lists missing_properties).
ValidateInstanceProperties(N, E, concept_name, provided, concept_label, include_inherited) ==
    LET required_props ==
            GetRequiredProperties(N, E, concept_name, concept_label, include_inherited)
        missing_props ==
            SelectSeq(required_props, LAMBDA r : r.property_name \notin provided)
    IN [valid |-> Len(missing_props) = 0,
        raised |-> Len(missing_props) # 0,
        total_required |-> Len(required_props),
        missing_properties |-> missing_props]

(***************************************************************************)
(* Callers of create_relationship.  A caller is idle, between its check    *)
(* and its write ("create"), or back with a result ("done").               *)
(***************************************************************************)
Callers == 1..NumCallers

\* the fixed graph the relationship calls work on: two nodes named x that
\* share the secondary label Class, and one node named y
RelNodes ==
    {Node(1, {"Class"}, "x", None, NoProps, FALSE),
     Node(2, {"Concept", "Class"}, "x", None, NoProps, FALSE),
     Node(3, {"Concept"}, "y", None, NoProps, FALSE)}

Pattern(label, name) == [label |-> label, name |-> name]

\* the endpoint patterns and relationship types callers pass
RelFromPatterns == {Pattern("Concept", "x"), Pattern("Class", "x")}

RelToPatterns == {Pattern("Concept", "y"), Pattern("Concept", "z")}

RelTypes == {"SUBCLASS_OF", "RELATED_TO"}

IdleCaller ==
    [pc |-> "idle", fromPat |-> Pattern(None, None), toPat |-> Pattern(None, None),
     type |-> None, pre |-> 0, result |-> WriteStats(0)]

\* each pattern of the call matches exactly one node
SingleMatch(N, fromPat, toPat) ==
    /\ Cardinality(Match(N, fromPat.label, fromPat.name)) = 1
    /\ Cardinality(Match(N, toPat.label, toPat.name)) = 1

\* some pattern of the call matches several nodes
MultiMatch(N, fromPat, toPat) ==
    \/ Cardinality(Match(N, fromPat.label, fromPat.name)) > 1
    \/ Cardinality(Match(N, toPat.label, toPat.name)) > 1

\* edges of the call's type between the nodes its patterns match
PairCount(N, E, fromPat, toPat, type) ==
    LET ks == {e \in DOMAIN E :
                 /\ e.type = type
                 /\ e.src \in {a.id : a \in Match(N, fromPat.label, fromPat.name)}
                 /\ e.dst \in {b.id : b \in Match(N, toPat.label, toPat.name)}}
        RECURSIVE Sum(_)
        Sum(S) == IF S = {} THEN 0
                  ELSE LET x == CHOOSE y \in S : TRUE IN E[x] + Sum(S \ {x})
    IN Sum(ks)

\* First round trip: the existence check.  If the relationship exists the
\* call returns at once, else it goes on to the write.
RelCall(c) ==
    /\ callers[c].pc \in {"idle", "done"}
    /\ flags.calls < MaxRelCalls
    /\ \E f \in RelFromPatterns, t \in RelToPatterns, ty \in RelTypes :
         \E exists \in RelCheck(nodes, edges, f, t, ty) :
            /\ callers' = [callers EXCEPT ![c] =
                   [pc |-> IF exists THEN "done" ELSE "create",
                    fromPat |-> f, toPat |-> t, type |-> ty,
                    pre |-> PairCount(nodes, edges, f, t, ty),
                    result |-> IF exists THEN AlreadyExists ELSE WriteStats(0)]]
            /\ flags' = [flags EXCEPT
                   !.calls = @ + 1,
                   !.overlap = @ \/ \E d \in Callers \ {c} : callers[d].pc = "create",
                   !.multi = @ \/ MultiMatch(nodes, f, t)]
    /\ UNCHANGED <<nodes, edges, last>>

\* Second round trip: the CREATE, and the return of its statistics.
RelWrite(c) ==
    /\ callers[c].pc = "create"
    /\ LET me == callers[c]
           new == CreatedEdges(nodes, edges, me.fromPat, me.toPat, me.type, FALSE)
       IN /\ edges' = AddEdges(edges, new)
          /\ callers' = [callers EXCEPT ![c].pc = "done",
                                        ![c].result = WriteStats(Cardinality(new))]
    /\ UNCHANGED <<nodes, flags, last>>

NoFlags == [calls |-> 0, overlap |-> FALSE, multi |-> FALSE]

NoLast == [op |-> None]

InitRel ==
    /\ nodes = RelNodes
    /\ edges = NoEdges
    /\ callers = [c \in Callers |-> IdleCaller]
    /\ flags = NoFlags
    /\ last = NoLast

NextRel == \E c \in Callers : RelCall(c) \/ RelWrite(c)

SpecRel == InitRel /\ [][NextRel]_vars

(***************************************************************************)
(* The inheritance queries on a schema: concepts A (label Class), B and C  *)
(* (label Concept), properties p and q, any SUBCLASS_OF edges among the    *)
(* candidates and any HAS_PROPERTY edges, required or optional.            *)
(***************************************************************************)
ReqNodes ==
    {Node(1, {"Class"}, "A", None, NoProps, FALSE),
     Node(2, {"Concept"}, "B", None, NoProps, FALSE),
     Node(3, {"Concept"}, "C", None, NoProps, FALSE),
     Node(4, {"Property", "DataProperty"}, "p", None, NoProps, FALSE),
     Node(5, {"Property", "DataProperty"}, "q", None, NoProps, FALSE)}

ReqConcepts == {"A", "B", "C"}

ReqLabels == {"Concept", "Class"}

ReqProperties == {"p", "q"}

\* C -> B -> A, the shortcut C -> A, and A -> C, which closes a cycle
SubclassCandidates ==
    {Edge(3, "SUBCLASS_OF", 2, FALSE), Edge(2, "SUBCLASS_OF", 1, FALSE),
     Edge(3, "SUBCLASS_OF", 1, FALSE), Edge(1, "SUBCLASS_OF", 3, FALSE)}

HasPropertyCandidates ==
    {Edge(c, "HAS_PROPERTY", p, r) : c \in {1, 2, 3}, p \in {4, 5}, r \in BOOLEAN}

\* the schemas: create_relationship leaves at most one HAS_PROPERTY edge
\* from a concept to a property
Schemas ==
    {S \cup H :
        S \in {T \in SUBSET SubclassCandidates : Cardinality(T) <= MaxSubclass},
        H \in {T \in SUBSET HasPropertyCandidates :
                 /\ Cardinality(T) <= MaxHasProperty
                 /\ \A e \in T, f \in T : (e.src = f.src /\ e.dst = f.dst) => e = f}}

InitReq ==
    /\ nodes = ReqNodes
    /\ \E G \in Schemas : edges = [e \in G |-> 1]
    /\ callers = [c \in Callers |-> IdleCaller]
    /\ flags = NoFlags
    /\ last = NoLast

\* a call of get_required_properties_for_concept (the queries write nothing:
\* one call per schema shows all there is)
QueryRequired ==
    /\ last = NoLast
    /\ \E c \in ReqConcepts, l \in ReqLabels, inh \in BOOLEAN :
         last' = [op |-> "get_required_properties_for_concept",
                  concept_name |-> c, concept_label |-> l, include_inherited |-> inh,
                  result |-> GetRequiredProperties(nodes, edges, c, l, inh)]
    /\ UNCHANGED <<nodes, edges, callers, flags>>

\* a call of validate_instance_properties
QueryValidate ==
    /\ last = NoLast
    /\ \E c \in ReqConcepts, l \in ReqLabels, inh \in BOOLEAN,
          provided \in SUBSET ReqProperties :
         last' = [op |-> "validate_instance_properties",
                  concept_name |-> c, concept_label |-> l, include_inherited |-> inh,
                  provided |-> provided,
                  result |-> ValidateInstanceProperties(nodes, edges, c, provided, l, inh)]
    /\ UNCHANGED <<nodes, edges, callers, flags>>

NextReq == QueryRequired \/ QueryValidate

SpecReq == InitReq /\ [][NextReq]_vars

(***************************************************************************)
(* Property values and lookups of OntologyService.                         *)
(***************************************************************************)
\* A value is a scalar (a str) or a list of names.
Scalar(v) == [list |-> FALSE, items |-> <<v>>]

ListOf(s) == [list |-> TRUE, items |-> s]

\* the keys of a dict in the order its items are walked
KeysInOrder(f) ==
    LET RECURSIVE Sort(_)
        Sort(S) ==
            IF S = {} THEN <<>>
            ELSE LET x == CHOOSE y \in S : \A z \in S : Rank(y) <= Rank(z)
                 IN <<x>> \o Sort(S \ {x})
    IN Sort(DOMAIN f)

\* check_name_exists: count(n) > 0 over the nodes matched
CheckNameExists(N, name, label) == Match(N, label, name) # {}

\* the lookup finds nothing
GetExistingNodeBlind(N, name, label) == {}

\* get_existing_node: the records result.single() may hand back; the empty
\* set stands for None
GetExistingNode(N, name, label) == Match(N, label, name)

\* find_nodes_by_name: MATCH (n {name: $name}) over all labels
FindNodesByName(N, name) == Match(N, None, name)

labels_to_constrain == <<"Concept", "Instance", "Property", "Class", "Individual">>

\* of several nodes with the name, one is taken
AutoDetectFirstFound(N, domain_name) ==
    LET found == Match(N, None, domain_name)
    IN IF found = {} THEN {[error |-> "does not exist", label |-> None]}
       ELSE UNION {{[error |-> None, label |-> l] : l \in n.labels} : n \in found}

\* auto_detect_domain_label: the outcomes [error, label].  A single node
\* gives its first priority label, else its first label (any of them, the
\* order of labels(n) being the store's), else "Node".
AutoDetectDomainLabel(N, domain_name) ==
    LET found == FindNodesByName(N, domain_name)
        Primary(n) ==
            LET hits == {i \in 1..Len(labels_to_constrain) :
                           labels_to_constrain[i] \in n.labels}
            IN IF hits # {}
               THEN {labels_to_constrain[CHOOSE i \in hits : \A j \in hits : i <= j]}
               ELSE IF n.labels # {} THEN n.labels ELSE {"Node"}
    IN IF found = {} THEN {[error |-> "does not exist", label |-> None]}
       ELSE IF Cardinality(found) = 1
       THEN UNION {{[error |-> None, label |-> l] : l \in Primary(n)} : n \in found}
       ELSE {[error |-> "Multiple nodes found", label |-> None]}

\* p.property_type of a Property node
PropertyTypeOf(n) ==
    IF "property_type" \in DOMAIN n.props
    THEN n.props["property_type"].items[1]
    ELSE None

\* the names without Property node get no entry
IdentifyFoundOnly(N, property_names) ==
    LET found == {n \in N : "Property" \in n.labels /\ n.name \in property_names}
    IN {f \in [{n.name : n \in found} -> {PropertyTypeOf(n) : n \in found}] :
          \A k \in DOMAIN f : \E n \in found : n.name = k /\ f[k] = PropertyTypeOf(n)}

\* _identify_property_types: the maps name -> type the call may build.  A
\* name without Property node is a DataProperty; of several Property nodes
\* with one name the last row read wins.
IdentifyPropertyTypes(N, property_names) ==
    LET found == {n \in N : "Property" \in n.labels /\ n.name \in property_names}
        types == {"DataProperty"} \cup {PropertyTypeOf(n) : n \in found}
    IN {f \in [property_names -> types] :
          \A k \in property_names :
              IF \E n \in found : n.name = k
              THEN \E n \in found : n.name = k /\ f[k] = PropertyTypeOf(n)
              ELSE f[k] = "DataProperty"}

\* properties.get("name") when it is a str, else None
RequestedNewName(properties) ==
    IF "name" \in DOMAIN properties /\ ~properties["name"].list
    THEN properties["name"].items[1]
    ELSE None

\* the keys of dict(existing_node): what the node has stored
StoredKeys(n) ==
    {"name", "instance_of", "comment", "tag", "created_at"}
        \cup DOMAIN n.props
        \cup (IF n.updated THEN {"updated_at"} ELSE {})

(***************************************************************************)
(* ObjectProperty helpers.                                                 *)
(***************************************************************************)
\* prop_name.upper().replace(" ", "_").replace("-", "_") on the property
\* names of the model
RelationshipType(prop_name) ==
    CASE prop_name = "o" -> "O"
      [] prop_name = "d" -> "D"
      [] prop_name = "p" -> "P"
      [] prop_name = "q" -> "Q"
      [] prop_name = "isObjectFieldOf" -> "ISOBJECTFIELDOF"
      [] prop_name \in {"part of", "part-of"} -> "PART_OF"
      [] OTHER -> prop_name

\* a single instance name or a list of them
TargetNames(target_value) ==
    IF target_value.list THEN target_value.items ELSE <<target_value.items[1]>>

\* the (property, target) pairs in the order the two loops visit them
TargetPairs(object_properties) ==
    LET keys == KeysInOrder(object_properties)
        RECURSIVE Walk(_)
        Walk(i) ==
            IF i > Len(keys) THEN <<>>
            ELSE LET target_names == TargetNames(object_properties[keys[i]])
                 IN [j \in 1..Len(target_names) |->
                        [property |-> keys[i], target |-> target_names[j]]]
                    \o Walk(i + 1)
    IN Walk(1)

\* only the first missing target is collected
ValidateTargetsFirstOnly(N, object_properties) ==
    LET missing == SelectSeq(TargetPairs(object_properties),
                             LAMBDA x : ~CheckNameExists(N, x.target, "Instance"))
    IN IF missing = <<>> THEN <<>> ELSE <<missing[1]>>

\* _validate_object_property_targets: missing_targets; the call raises,
\* listing them, when there is one
ValidateObjectPropertyTargets(N, object_properties) ==
    SelectSeq(TargetPairs(object_properties),
              LAMBDA x : ~CheckNameExists(N, x.target, "Instance"))

\* create_relationship run without another caller in between: the check,
\* then the CREATE unless the check found the relationship
CreateRelationship(N, E, fromPat, toPat, type) ==
    {IF exists
     THEN [edges |-> E, result |-> AlreadyExists]
     ELSE LET new == CreatedEdges(N, E, fromPat, toPat, type, FALSE)
          IN [edges |-> AddEdges(E, new), result |-> WriteStats(Cardinality(new))] :
        exists \in RelCheck(N, E, fromPat, toPat, type)}

\* what stands for a create_relationship call that raised
StoreRaised == [status |-> "raised", relationships_created |-> 0]

\* the store serves every call
CreateRelationshipUnfailing(N, E, fromPat, toPat, type, faults) ==
    CreateRelationship(N, E, fromPat, toPat, type)

\* create_relationship on a store that raises on the calls for the
\* relationship types `faults`; a call that raises writes nothing
CreateRelationshipOn(N, E, fromPat, toPat, type, faults) ==
    IF type \in faults
    THEN {[edges |-> E, result |-> StoreRaised]}
    ELSE CreateRelationship(N, E, fromPat, toPat, type)

\* one entry of the list _create_object_property_relationships returns; the
\* entry of a call that raised has success False and no status
RelEntry(pair, relationship_result) ==
    [property |-> pair.property, target |-> pair.target,
     relationship_type |-> RelationshipType(pair.property),
     success |-> relationship_result.status # "raised",
     status |-> CASE relationship_result.status = "raised" -> None
                  [] relationship_result.status = "already_exists" -> "already_exists"
                  [] OTHER -> "created",
     relationships_created |-> relationship_result.relationships_created]

\* _create_object_property_relationships: one create_relationship per
\* (property, target) pair; the outcomes [edges, results]
CreateObjectPropertyRelationships(N, E, instance_name, object_properties, faults) ==
    LET pairs == TargetPairs(object_properties)
        RECURSIVE Walk(_, _, _)
        Walk(i, Ecur, results) ==
            IF i > Len(pairs) THEN {[edges |-> Ecur, results |-> results]}
            ELSE UNION {Walk(i + 1, o.edges, Append(results, RelEntry(pairs[i], o.result))) :
                          o \in CreateRelationshipOn(N, Ecur,
                                   Pattern("Instance", instance_name),
                                   Pattern("Instance", pairs[i].target),
                                   RelationshipType(pairs[i].property), faults)}
    IN Walk(1, E, <<>>)

\* every outgoing edge of the instance is deleted
ReplacedEdgesAnyType(N, E, instance_name, object_properties) ==
    {e \in DOMAIN E :
        e.src \in {n.id : n \in MatchLabeled(N, "Instance", instance_name)}}

\* the edges (:Instance {name})-[r:rel_type]->(:Instance) of the properties
ReplacedEdges(N, E, instance_name, object_properties) ==
    {e \in DOMAIN E :
        /\ e.type \in {RelationshipType(k) : k \in DOMAIN object_properties}
        /\ e.src \in {n.id : n \in MatchLabeled(N, "Instance", instance_name)}
        /\ "Instance" \in NodeOf(N, e.dst).labels}

\* _replace_object_property_relationships: DELETE the edges of each
\* property, then create the new ones
ReplaceObjectPropertyRelationships(N, E, instance_name, object_properties, faults) ==
    CreateObjectPropertyRelationships(
        N, RemoveEdges(E, ReplacedEdges(N, E, instance_name, object_properties)),
        instance_name, object_properties, faults)

(***************************************************************************)
(* Node writes of OntologyService.                                         *)
(***************************************************************************)
\* MERGE (n:labels {name: $name}) ON CREATE SET n += $properties
CreateNodeWithMerge(N, label, name, instance_of, properties, additional_labels) ==
    LET labels == {label} \cup additional_labels
    IN IF \E n \in N : n.name = name /\ labels \subseteq n.labels
       THEN [nodes |-> N, nodes_created |-> 0]
       ELSE [nodes |-> N \cup {Node(NewId(N), labels, name, instance_of,
                                    properties, FALSE)},
             nodes_created |-> 1]

\* MATCH (n:label {name: $name}) SET n.key = value ..., n.updated_at
UpdateNode(N, name, label, properties) ==
    {IF n \in MatchLabeled(N, label, name)
     THEN [n EXCEPT !.props = properties @@ @, !.updated = TRUE]
     ELSE n : n \in N}

\* the conflict check on the target name is left out
RenameNodeUnchecked(N, old_name, label, new_name) ==
    IF old_name = new_name
    THEN [error |-> None, nodes |-> N, status |-> "no_op"]
    ELSE IF GetExistingNode(N, old_name, label) = {}
    THEN [error |-> "not found for rename", nodes |-> N, status |-> None]
    ELSE [error |-> None,
          nodes |-> {IF n \in MatchLabeled(N, label, old_name)
                     THEN [n EXCEPT !.name = new_name, !.updated = TRUE]
                     ELSE n : n \in N},
          status |-> "renamed"]

\* _rename_node: no_op for the same name; the source must exist and the
\* target name be free under the label; then SET n.name
RenameNode(N, old_name, label, new_name) ==
    IF old_name = new_name
    THEN [error |-> None, nodes |-> N, status |-> "no_op"]
    ELSE IF GetExistingNode(N, old_name, label) = {}
    THEN [error |-> "not found for rename", nodes |-> N, status |-> None]
    ELSE IF CheckNameExists(N, new_name, label)
    THEN [error |-> "already exists for label", nodes |-> N, status |-> None]
    ELSE [error |-> None,
          nodes |-> {IF n \in MatchLabeled(N, label, old_name)
                     THEN [n EXCEPT !.name = new_name, !.updated = TRUE]
                     ELSE n : n \in N},
          status |-> "renamed"]

(***************************************************************************)
(* OntologyService.create_instance_node                                    *)
(***************************************************************************)
\* What a call hands back.  status "raised" stands for the exception, with
\* its message in error; a key the result lacks reads as its default.
EmptyResult ==
    [status |-> None, error |-> None, nodes_created |-> 0, nodes_updated |-> 0,
     auto_relationship_created |-> FALSE, relationships_created |-> 0,
     missing_properties |-> <<>>, missing_targets |-> <<>>,
     object_property_relationships |-> <<>>,
     relationship_error |-> None, object_properties_failed |-> 0]

Raised(error) == [EmptyResult EXCEPT !.status = "raised", !.error = error]

\* the number of entries without success
FailedEntries(results) == Len(SelectSeq(results, LAMBDA r : ~r.success))

\* sum of relationships_created over the entries
TotalCreated(results) ==
    LET RECURSIVE Sum(_)
        Sum(i) == IF i > Len(results) THEN 0
                  ELSE results[i].relationships_created + Sum(i + 1)
    IN Sum(1)

\* the concept is not looked up
ConceptCheckSkipped(N, concept_type, concept_label, auto_create_relationship) ==
    {[error |-> None, concept_label |-> concept_label]}

\* The concept check: the outcomes [error, concept_label].
ConceptCheck(N, concept_type, concept_label, auto_create_relationship) ==
    IF ~auto_create_relationship
    THEN {[error |-> None, concept_label |-> concept_label]}
    ELSE LET detected == IF concept_label = None
                         THEN AutoDetectDomainLabel(N, concept_type)
                         ELSE {[error |-> None, label |-> concept_label]}
         IN {IF d.error # None
             THEN [error |-> d.error, concept_label |-> None]
             ELSE IF GetExistingNode(N, concept_type, d.label) = {}
             THEN [error |-> "does not exist", concept_label |-> d.label]
             ELSE [error |-> None, concept_label |-> d.label] : d \in detected}

\* The outcomes [nodes, edges, result] of a call with arguments a on the
\* graph (N, E), the store raising on the create_relationship calls for
\* the relationship types `faults`.
CreateInstanceNodeOn(N, E, a, faults) ==
    LET properties == a.properties
        requested_new_name == RequestedNewName(properties)
        property_names == DOMAIN properties \ {"name"}
        auto_object == a.auto_create_object_property_relationships
        Fail(result) == {[nodes |-> N, edges |-> E, result |-> result]}
        After(concept_label, property_types) ==
            LET data_properties ==
                    [k \in {x \in property_names : property_types[x] # "ObjectProperty"}
                       |-> properties[k]]
                object_properties ==
                    [k \in {x \in property_names : property_types[x] = "ObjectProperty"}
                       |-> properties[k]]
                with_targets == auto_object /\ DOMAIN object_properties # {}
                Validation(provided) ==
                    ValidateInstanceProperties(N, E, a.concept_type, provided,
                                               concept_label, TRUE)
                missing_targets ==
                    IF with_targets
                    THEN ValidateObjectPropertyTargets(N, object_properties)
                    ELSE <<>>
                existing_node == GetExistingNode(N, a.instance_name, "Instance")
                Update(existing) ==
                    LET rename ==
                            IF requested_new_name # None
                               /\ requested_new_name # a.instance_name
                            THEN RenameNode(N, a.instance_name, "Instance",
                                            requested_new_name)
                            ELSE [error |-> None, nodes |-> N, status |-> None]
                        instance_name ==
                            IF rename.status = "renamed"
                            THEN requested_new_name ELSE a.instance_name
                        updated == UpdateNode(rename.nodes, instance_name,
                                              "Instance", data_properties)
                        update_result ==
                            [EmptyResult EXCEPT !.status = "updated",
                                                !.nodes_updated = 1]
                    IN IF a.validate_required_properties
                          /\ Validation(StoredKeys(existing) \cup property_names).raised
                       THEN Fail([Raised("Missing required properties") EXCEPT
                                    !.missing_properties =
                                        Validation(StoredKeys(existing)
                                                   \cup property_names).missing_properties])
                       ELSE IF rename.error # None
                       THEN Fail(Raised(rename.error))
                       ELSE IF with_targets
                       THEN {[nodes |-> updated, edges |-> o.edges,
                              result |-> [update_result EXCEPT
                                  !.object_property_relationships = o.results]] :
                               o \in ReplaceObjectPropertyRelationships(
                                        updated, E, instance_name, object_properties,
                                        faults)}
                       ELSE {[nodes |-> updated, edges |-> E, result |-> update_result]}
                Existing(existing) ==
                    IF a.allow_update /\ DOMAIN properties # {}
                    THEN Update(existing)
                    ELSE IF requested_new_name # None
                            /\ requested_new_name # a.instance_name
                    THEN Fail(Raised("Rename requested but allow_update is False"))
                    ELSE {[nodes |-> N, edges |-> E,
                           result |-> [EmptyResult EXCEPT !.status = "already_exists"]]}
                final_instance_name ==
                    IF requested_new_name # None
                    THEN requested_new_name ELSE a.instance_name
                merged == CreateNodeWithMerge(N, "Instance", final_instance_name,
                              a.concept_type, data_properties, a.additional_labels)
                classified ==
                    IF a.auto_create_relationship
                    THEN CreateRelationshipOn(merged.nodes, E,
                             Pattern("Instance", final_instance_name),
                             Pattern(concept_label, a.concept_type),
                             "IS_INSTANCE_OF", faults)
                    ELSE {[edges |-> E, result |-> WriteStats(0)]}
                WithTargets(r) ==
                    IF with_targets
                    THEN CreateObjectPropertyRelationships(
                             merged.nodes, r.edges, final_instance_name,
                             object_properties, faults)
                    ELSE {[edges |-> r.edges, results |-> <<>>]}
                Create ==
                    UNION {{[nodes |-> merged.nodes, edges |-> o.edges,
                             result |-> [EmptyResult EXCEPT
                                 !.nodes_created = merged.nodes_created,
                                 !.auto_relationship_created =
                                     a.auto_create_relationship
                                         /\ r.result.status # "raised",
                                 !.relationship_error =
                                     IF r.result.status = "raised"
                                     THEN "store" ELSE None,
                                 !.object_properties_failed =
                                     FailedEntries(o.results),
                                 !.relationships_created =
                                     r.result.relationships_created
                                         + TotalCreated(o.results),
                                 !.object_property_relationships = o.results]] :
                              o \in WithTargets(r)} : r \in classified}
            IN IF a.validate_required_properties /\ Validation(property_names).raised
               THEN Fail([Raised("Missing required properties") EXCEPT
                            !.missing_properties =
                                Validation(property_names).missing_properties])
               ELSE IF missing_targets # <<>>
               THEN Fail([Raised("ObjectProperty validation failed") EXCEPT
                            !.missing_targets = missing_targets])
               ELSE IF existing_node # {}
               THEN UNION {Existing(existing) : existing \in existing_node}
               ELSE Create
    IN UNION {IF c.error # None
              THEN Fail(Raised(c.error))
              ELSE UNION {After(c.concept_label, property_types) :
                            property_types \in IdentifyPropertyTypes(N, property_names)} :
                c \in ConceptCheck(N, a.concept_type, a.concept_label,
                                   a.auto_create_relationship)}

\* create_instance_node on a store that serves every call
CreateInstanceNode(N, E, a) == CreateInstanceNodeOn(N, E, a, {})

(***************************************************************************)
(* Instances of a small ontology: class Table, a subclass of concept A.    *)
(* Table requires the data property d, A requires the data property p,     *)
(* and Table has the optional ObjectProperty o.  No node is named Ghost.   *)
(***************************************************************************)
PropertyNode(id, name, property_type) ==
    Node(id, {"Property", property_type}, name, None,
         [k \in {"property_type"} |-> Scalar(property_type)], FALSE)

SchemaNodes ==
    {Node(1, {"Class"}, "Table", None, NoProps, FALSE),
     Node(2, {"Concept"}, "A", None, NoProps, FALSE),
     PropertyNode(3, "d", "DataProperty"),
     PropertyNode(4, "p", "DataProperty"),
     PropertyNode(5, "o", "ObjectProperty")}

SchemaEdges ==
    [e \in {Edge(1, "SUBCLASS_OF", 2, FALSE),
            Edge(1, "HAS_PROPERTY", 3, TRUE),
            Edge(2, "HAS_PROPERTY", 4, TRUE),
            Edge(1, "HAS_PROPERTY", 5, FALSE)} |-> 1]

\* the arguments of a create_instance_node call
Call(instance_name, concept_type, properties, allow_update, validate, concept_label, auto_rel, auto_obj) ==
    [instance_name |-> instance_name, concept_type |-> concept_type,
     properties |-> properties, additional_labels |-> {},
     allow_update |-> allow_update,
     validate_required_properties |-> validate,
     concept_label |-> concept_label,
     auto_create_relationship |-> auto_rel,
     auto_create_object_property_relationships |-> auto_obj]

\* a call with the defaults of the signature
DefaultCall(instance_name, properties, allow_update) ==
    Call(instance_name, "Table", properties, allow_update, TRUE, None, TRUE, TRUE)

\* property dicts: both required data properties, with optional extras
Full(d) == [k \in {"d", "p"} |-> IF k = "d" THEN Scalar(d) ELSE Scalar("v1")]

WithName(properties, name) == [k \in {"name"} |-> Scalar(name)] @@ properties

WithObject(properties, target_value) == [k \in {"o"} |-> target_value] @@ properties

\* an instance of Table as a default call with both data properties makes
\* it, and its IS_INSTANCE_OF edge
TableInstance(id, name, updated) ==
    Node(id, {"Instance"}, name, "Table", Full("v1"), updated)

Graph(instances, links) ==
    [nodes |-> SchemaNodes \cup instances,
     edges |-> [e \in {Edge(n.id, "IS_INSTANCE_OF", 1, FALSE) : n \in instances}
                       \cup links |-> 1] @@ SchemaEdges]

\* The graphs a behaviour starts from, each the result of default calls on
\* the bare schema: no instance; i1; i1 then i2; i2 then i1 created with
\* o -> i2; and i2 after that updated with o -> i1.
Bare == Graph({}, {})

OneInstance == Graph({TableInstance(6, "i1", FALSE)}, {})

TwoInstances ==
    Graph({TableInstance(6, "i1", FALSE), TableInstance(7, "i2", FALSE)}, {})

Linked ==
    Graph({TableInstance(6, "i2", FALSE), TableInstance(7, "i1", FALSE)},
          {Edge(7, "O", 6, FALSE)})

LinkedBothWays ==
    Graph({TableInstance(6, "i2", TRUE), TableInstance(7, "i1", FALSE)},
          {Edge(7, "O", 6, FALSE), Edge(6, "O", 7, FALSE)})

Histories == {Bare, OneInstance, TwoInstances, Linked, LinkedBothWays}

\* calls of create_instance_node in one behaviour
MaxCalls == 2

InstanceNames == {"i1", "i2"}

ConceptTypes == {"Table", "Ghost"}

ConceptLabels == {None, "Class", "Concept"}

PropertyChoices ==
    {NoProps,
     Full("v1"),
     Full("v2"),
     [k \in {"d"} |-> Scalar("v1")],
     [k \in {"o"} |-> Scalar("i3")],
     WithObject(Full("v1"), Scalar("i1")),
     WithObject(Full("v1"), ListOf(<<"i1", "i3">>)),
     WithName(Full("v1"), "i3"),
     WithName(Full("v1"), "i2"),
     WithName(WithObject(Full("v1"), Scalar("i2")), "i3")}

InstanceCalls ==
    {Call(i, c, props, upd, val, l, rel, obj) :
        i \in InstanceNames, c \in ConceptTypes, props \in PropertyChoices,
        upd \in BOOLEAN, val \in BOOLEAN, l \in ConceptLabels,
        rel \in BOOLEAN, obj \in BOOLEAN}

\* The calls a behaviour goes on with after its first one: plain creates,
\* renames (an update whose properties carry another name), an update that
\* replaces the targets of o, and the repetition of the call before, as it
\* was and without allow_update.
FollowUpCalls ==
    {DefaultCall(i, Full("v1"), FALSE) : i \in InstanceNames}
        \cup {DefaultCall(i, WithName(Full("v1"), n), TRUE) :
                 i \in InstanceNames, n \in {"i1", "i2", "i3"}}
        \cup {DefaultCall("i1", WithObject(Full("v2"), ListOf(<<"i1", "i2">>)), TRUE)}

NextCalls ==
    IF last.op = "create_instance_node"
    THEN FollowUpCalls \cup {last.args, [last.args EXCEPT !.allow_update = FALSE]}
    ELSE InstanceCalls

InitInstances ==
    /\ \E h \in Histories :
          /\ nodes = h.nodes
          /\ edges = h.edges
    /\ callers = [c \in Callers |-> IdleCaller]
    /\ flags = NoFlags
    /\ last = NoLast

\* one call of create_instance_node, from its first query to its return;
\* last keeps the call, the graph it found and the call before it
CreateInstance ==
    /\ flags.calls < MaxCalls
    /\ \E a \in NextCalls :
         \E out \in CreateInstanceNode(nodes, edges, a) :
            /\ nodes' = out.nodes
            /\ edges' = out.edges
            /\ last' = [op |-> "create_instance_node", args |-> a,
                        before |-> [nodes |-> nodes, edges |-> edges],
                        result |-> out.result,
                        previous |-> IF last.op = None THEN NoLast
                                     ELSE [op |-> last.op, args |-> last.args,
                                           result |-> last.result]]
    /\ flags' = [flags EXCEPT !.calls = @ + 1]
    /\ UNCHANGED callers

NextInstances == CreateInstance

Spec == InitInstances /\ [][NextInstances]_vars

(***************************************************************************)
(* Deletion: delete_instance_node, delete_nodes_by_name and                *)
(* delete_object_by_name.  Each returns [nodes, edges, result]; status     *)
(* "raised" stands for the exception, with its message in error.           *)
(***************************************************************************)
\* number of edges, parallel copies counted, among the edges `cut`
EdgeTotal(E, cut) ==
    LET RECURSIVE Sum(_)
        Sum(S) == IF S = {} THEN 0
                  ELSE LET x == CHOOSE y \in S : TRUE IN E[x] + Sum(S \ {x})
    IN Sum(cut)

\* the nodes are deleted and their edges stay behind
DeleteKeepingEdges(N, E, gone) ==
    [nodes |-> N \ gone, edges |-> E,
     nodes_deleted |-> Cardinality(gone), relationships_deleted |-> 0]

\* DETACH DELETE of the nodes `gone`: the nodes and every edge at one of
\* them go in the one write; the counters are those of the summary
DetachDelete(N, E, gone) ==
    LET ids == {n.id : n \in gone}
        cut == {e \in DOMAIN E : e.src \in ids \/ e.dst \in ids}
    IN [nodes |-> N \ gone, edges |-> RemoveEdges(E, cut),
        nodes_deleted |-> Cardinality(gone),
        relationships_deleted |-> EdgeTotal(E, cut)]

\* what a deletion hands back; a key the result lacks reads as 0
DeleteResult(name, status, write) ==
    [name |-> name, status |-> status, error |-> None,
     nodes_deleted |-> write.nodes_deleted,
     relationships_deleted |-> write.relationships_deleted,
     objects_count |-> 0, fields_count |-> 0]

NothingDeleted == [nodes_deleted |-> 0, relationships_deleted |-> 0]

DeleteRaised(name, error) ==
    [DeleteResult(name, "raised", NothingDeleted) EXCEPT !.error = error]

\* the defaults of the signature of delete_instance_node
DeleteInstanceDefaults == [fail_if_not_found |-> TRUE]

\* delete_instance_node: the lookup under label Instance, then
\* MATCH (n:Instance {name: $name}) DETACH DELETE n.  store_fails: the store
\* raises on the call's query, which changes nothing.
DeleteInstanceNode(N, E, instance_name, fail_if_not_found, store_fails) ==
    LET existing_node == GetExistingNode(N, instance_name, "Instance")
        Unchanged(result) == [nodes |-> N, edges |-> E, result |-> result]
        write == DetachDelete(N, E, MatchLabeled(N, "Instance", instance_name))
    IN IF store_fails
       THEN Unchanged(DeleteRaised(instance_name, "store"))
       ELSE IF existing_node = {}
       THEN IF fail_if_not_found
            THEN Unchanged(DeleteRaised(instance_name, "not found"))
            ELSE Unchanged(DeleteResult(instance_name, "not_found", NothingDeleted))
       ELSE [nodes |-> write.nodes, edges |-> write.edges,
             result |-> DeleteResult(instance_name,
                           IF write.nodes_deleted > 0 THEN "deleted" ELSE "no_op",
                           write)]

\* the aggregate delete_nodes_by_name starts from
NoneProcessed(names) ==
    [total |-> Len(names), processed |-> 0, nodes_deleted |-> 0,
     relationships_deleted |-> 0, errors |-> <<>>, results |-> <<>>]

\* the loop goes on after an error whatever continue_on_error says
DeleteNodesNeverStops(N, E, names, continue_on_error, faults) ==
    LET RECURSIVE Loop(_, _, _, _)
        Loop(i, Ncur, Ecur, aggregated) ==
            IF i > Len(names)
            THEN [nodes |-> Ncur, edges |-> Ecur, result |-> aggregated]
            ELSE LET out == DeleteInstanceNode(Ncur, Ecur, names[i], FALSE, i \in faults)
                     res == out.result
                 IN IF res.status = "raised"
                    THEN Loop(i + 1, out.nodes, out.edges,
                              [aggregated EXCEPT !.errors =
                                  Append(@, [name |-> names[i], error |-> res.error])])
                    ELSE Loop(i + 1, out.nodes, out.edges,
                              [aggregated EXCEPT
                                  !.processed = @ + 1,
                                  !.nodes_deleted = @ + res.nodes_deleted,
                                  !.relationships_deleted = @ + res.relationships_deleted,
                                  !.results = Append(@, [name |-> names[i],
                                                         status |-> res.status])])
    IN Loop(1, N, E, NoneProcessed(names))

\* delete_nodes_by_name: one delete_instance_node(name, False) per name of
\* the list, in its order.  faults: the positions at which the store raises.
DeleteNodesByName(N, E, names, continue_on_error, faults) ==
    LET RECURSIVE Loop(_, _, _, _)
        Loop(i, Ncur, Ecur, aggregated) ==
            IF i > Len(names)
            THEN [nodes |-> Ncur, edges |-> Ecur, result |-> aggregated]
            ELSE LET out == DeleteInstanceNode(Ncur, Ecur, names[i], FALSE, i \in faults)
                     res == out.result
                     failed == [aggregated EXCEPT !.errors =
                                   Append(@, [name |-> names[i], error |-> res.error])]
                 IN IF res.status = "raised"
                    THEN IF continue_on_error
                         THEN Loop(i + 1, out.nodes, out.edges, failed)
                         ELSE [nodes |-> out.nodes, edges |-> out.edges,
                               result |-> failed]
                    ELSE Loop(i + 1, out.nodes, out.edges,
                              [aggregated EXCEPT
                                  !.processed = @ + 1,
                                  !.nodes_deleted = @ + res.nodes_deleted,
                                  !.relationships_deleted = @ + res.relationships_deleted,
                                  !.results = Append(@, [name |-> names[i],
                                                         status |-> res.status])])
    IN Loop(1, N, E, NoneProcessed(names))

\* MATCH (o:Instance {name: $name, instance_of: 'Object'})
ObjectsNamed(N, object_name) ==
    {o \in MatchLabeled(N, "Instance", object_name) : o.instance_of = "Object"}

\* no field is linked
LinkedFieldsNone(N, E, objects) == {}

\* OPTIONAL MATCH (o)<-[:ISOBJECTFIELDOF]-(f:Instance {instance_of: 'ObjectField'})
LinkedFields(N, E, objects) ==
    {f \in N :
        /\ "Instance" \in f.labels
        /\ f.instance_of = "ObjectField"
        /\ \E o \in objects, e \in DOMAIN E :
              e.src = f.id /\ e.type = "ISOBJECTFIELDOF" /\ e.dst = o.id}

\* delete_object_by_name: the existence check, the count of the linked
\* fields, then DETACH DELETE f, o
DeleteObjectByName(N, E, object_name, fail_if_not_found) ==
    LET objects == ObjectsNamed(N, object_name)
        fields == LinkedFields(N, E, objects)
        write == DetachDelete(N, E, objects \cup fields)
        Unchanged(result) == [nodes |-> N, edges |-> E, result |-> result]
    IN IF objects = {}
       THEN IF fail_if_not_found
            THEN Unchanged(DeleteRaised(object_name, "not found"))
            ELSE Unchanged(DeleteResult(object_name, "not_found", NothingDeleted))
       ELSE [nodes |-> write.nodes, edges |-> write.edges,
             result |-> [DeleteResult(object_name, "deleted", write) EXCEPT
                            !.objects_count = 1,
                            !.fields_count = Cardinality(fields)]]

(***************************************************************************)
(* Node creation besides create_instance_node.                             *)
(***************************************************************************)
\* the labels a declared uniqueness constraint covers
ConstrainedLabels == {labels_to_constrain[i] : i \in 1..Len(labels_to_constrain)}

\* the store refuses a node whose name a node of a constrained label has
ConstraintViolated(N, labels, name, constraints) ==
    \E l \in labels \cap constraints, n \in N : l \in n.labels /\ n.name = name

\* Neo4jService.create_node: CREATE (n:labels $properties).  A constraint
\* error that says "already exists" is turned into a skipped write.
CreateNode(N, label, name, properties, additional_labels, constraints) ==
    LET labels == {label} \cup additional_labels
    IN IF ConstraintViolated(N, labels, name, constraints)
       THEN [nodes |-> N, nodes_created |-> 0, status |-> "already_exists"]
       ELSE [nodes |-> N \cup {Node(NewId(N), labels, name, None, properties, FALSE)},
             nodes_created |-> 1, status |-> None]

\* what a node-creating call hands back
NodeResult(status, nodes_created, nodes_updated) ==
    [status |-> status, error |-> None, nodes_created |-> nodes_created,
     nodes_updated |-> nodes_updated, auto_relationship_created |-> FALSE,
     relationships_created |-> 0]

NodeRaised(error) == [NodeResult("raised", 0, 0) EXCEPT !.error = error]

\* create_concept_node: the lookup under label Concept, then the update of
\* the node found, or the node as it is, or the MERGE of a new one
CreateConceptNode(N, concept_name, properties, additional_labels, allow_update, constraints) ==
    LET existing_node == GetExistingNode(N, concept_name, "Concept")
    IN IF existing_node # {}
       THEN IF allow_update /\ DOMAIN properties # {}
            THEN [nodes |-> UpdateNode(N, concept_name, "Concept", properties),
                  result |-> NodeResult("updated", 0, 1)]
            ELSE [nodes |-> N, result |-> NodeResult("already_exists", 0, 0)]
       ELSE IF ConstraintViolated(N, {"Concept"} \cup additional_labels,
                                  concept_name, constraints)
       THEN [nodes |-> N, result |-> NodeResult("already_exists", 0, 0)]
       ELSE LET merged == CreateNodeWithMerge(N, "Concept", concept_name, None,
                                              properties, additional_labels)
            IN [nodes |-> merged.nodes,
                result |-> NodeResult(None, merged.nodes_created, 0)]

\* the arguments of a create_property_node call
PropertyCall(property_name, property_type, domain, auto_rel, domain_label) ==
    [property_name |-> property_name, property_type |-> property_type,
     domain |-> domain, auto_create_relationship |-> auto_rel,
     domain_label |-> domain_label]

\* create_property_node: the domain check, the CREATE of the Property node
\* and the HAS_PROPERTY edge from the domain; the outcomes
\* [nodes, edges, result]
CreatePropertyNode(N, E, a, constraints) ==
    LET Fail(error) == {[nodes |-> N, edges |-> E, result |-> NodeRaised(error)]}
        detected ==
            IF a.domain # None /\ a.domain_label = None
            THEN AutoDetectDomainLabel(N, a.domain)
            ELSE {[error |-> None, label |-> a.domain_label]}
        with_domain == a.domain # None /\ a.auto_create_relationship
        node_properties ==
            [k \in {"property_type"} \cup (IF a.domain # None THEN {"domain"} ELSE {})
               |-> IF k = "domain" THEN Scalar(a.domain) ELSE Scalar(a.property_type)]
        After(domain_label) ==
            LET created ==
                    CreateNode(N, "Property", a.property_name, node_properties,
                               IF a.property_type # "Property"
                               THEN {a.property_type} ELSE {},
                               constraints)
                result == NodeResult(created.status, created.nodes_created, 0)
            IN IF with_domain /\ GetExistingNode(N, a.domain, domain_label) = {}
               THEN Fail("does not exist")
               ELSE IF with_domain
               THEN {[nodes |-> created.nodes, edges |-> o.edges,
                      result |-> [result EXCEPT
                          !.auto_relationship_created = TRUE,
                          !.relationships_created = o.result.relationships_created]] :
                       o \in CreateRelationship(created.nodes, E,
                                Pattern(domain_label, a.domain),
                                Pattern("Property", a.property_name),
                                "HAS_PROPERTY")}
               ELSE {[nodes |-> created.nodes, edges |-> E, result |-> result]}
    IN UNION {IF d.error # None THEN Fail(d.error) ELSE After(d.label) :
                d \in detected}

\* create_custom_node: the CREATE of a node with the label given
CreateCustomNode(N, label, name, additional_labels, constraints) ==
    LET created == CreateNode(N, label, name, NoProps, additional_labels, constraints)
    IN [nodes |-> created.nodes,
        result |-> NodeResult(created.status, created.nodes_created, 0)]

(***************************************************************************)
(* Deletion and node creation on an ontology of objects and their fields:  *)
(* the classes Object and ObjectField, both subclasses of concept A, and   *)
(* the ObjectProperty isObjectFieldOf of ObjectField.                      *)
(***************************************************************************)
OpsSchemaNodes ==
    {Node(1, {"Class"}, "Object", None, NoProps, FALSE),
     Node(2, {"Class"}, "ObjectField", None, NoProps, FALSE),
     Node(3, {"Concept"}, "A", None, NoProps, FALSE),
     PropertyNode(4, "isObjectFieldOf", "ObjectProperty")}

OpsSchemaEdges ==
    {Edge(1, "SUBCLASS_OF", 3, FALSE),
     Edge(2, "SUBCLASS_OF", 3, FALSE),
     Edge(2, "HAS_PROPERTY", 4, FALSE)}

\* an instance as create_instance_node makes it without data properties
PlainInstance(id, name, concept_type) ==
    Node(id, {"Instance"}, name, concept_type, NoProps, FALSE)

\* identity of the schema node an instance of concept_type points at
ClassId(concept_type) ==
    CASE concept_type = "Object" -> 1
      [] concept_type = "ObjectField" -> 2
      [] OTHER -> 3

\* the schema, the instances with their IS_INSTANCE_OF edges, and the
\* ISOBJECTFIELDOF edges from the pairs <<field, object>> of identities
OpsGraph(instances, links) ==
    [nodes |-> OpsSchemaNodes \cup instances,
     edges |-> [e \in OpsSchemaEdges
                      \cup {Edge(n.id, "IS_INSTANCE_OF", ClassId(n.instance_of), FALSE) :
                              n \in instances}
                      \cup {Edge(l[1], "ISOBJECTFIELDOF", l[2], FALSE) : l \in links}
                  |-> 1]]

\* The graphs a behaviour starts from, each made by create_instance_node
\* calls on the schema: none; o1 and then its fields f1 and f2; the objects
\* o1 and o2, then f1 (a field of o1), f2 (a field of o1 and of o2) and t1,
\* an instance of A with the same link to o1.
OpsBare == OpsGraph({}, {})

OneObject ==
    OpsGraph({PlainInstance(5, "o1", "Object"),
              PlainInstance(6, "f1", "ObjectField"),
              PlainInstance(7, "f2", "ObjectField")},
             {<<6, 5>>, <<7, 5>>})

TwoObjects ==
    OpsGraph({PlainInstance(5, "o1", "Object"),
              PlainInstance(6, "o2", "Object"),
              PlainInstance(7, "f1", "ObjectField"),
              PlainInstance(8, "f2", "ObjectField"),
              PlainInstance(9, "t1", "A")},
             {<<7, 5>>, <<8, 5>>, <<8, 6>>, <<9, 5>>})

OpsHistories == {OpsBare, OneObject, TwoObjects}

\* operations in one behaviour
MaxOps == 2

DeleteNames == {"o1", "o2", "f2", "B", "Object", "Ghost"}

\* the lists delete_nodes_by_name is called with
NameLists ==
    {<<>>, <<"o1">>, <<"Ghost", "o1">>, <<"o1", "o1">>, <<"f1", "Object", "o2">>}

ConceptNames == {"A", "B"}

ConceptProperties == {NoProps, [k \in {"tag"} |-> Scalar("v1")]}

PropertyCalls ==
    {PropertyCall("q", "DataProperty", None, TRUE, None),
     PropertyCall("q", "Property", "Object", TRUE, None),
     PropertyCall("q", "DataProperty", "B", TRUE, "Concept"),
     PropertyCall("isObjectFieldOf", "ObjectProperty", "Object", TRUE, "Class"),
     PropertyCall("isObjectFieldOf", "ObjectProperty", "Ghost", TRUE, None),
     PropertyCall("isObjectFieldOf", "DataProperty", "Ghost", FALSE, None)}

CustomLabels == {"Instance", "Concept", "Tag"}

CustomNames == {"o1", "B"}

InitOps ==
    /\ \E h \in OpsHistories :
          /\ nodes = h.nodes
          /\ edges = h.edges
    /\ callers = [c \in Callers |-> IdleCaller]
    /\ \E c \in {{}, ConstrainedLabels} : flags = [calls |-> 0, constraints |-> c]
    /\ last = NoLast

\* what every operation of a behaviour leaves in last and flags
Done(op, args, result) ==
    /\ last' = [op |-> op, args |-> args,
                before |-> [nodes |-> nodes, edges |-> edges],
                result |-> result]
    /\ flags' = [flags EXCEPT !.calls = @ + 1]
    /\ UNCHANGED callers

DeleteInstance ==
    /\ flags.calls < MaxOps
    /\ \E name \in DeleteNames, fail_if_not_found \in BOOLEAN, store_fails \in BOOLEAN :
          LET out == DeleteInstanceNode(nodes, edges, name, fail_if_not_found, store_fails)
          IN /\ nodes' = out.nodes
             /\ edges' = out.edges
             /\ Done("delete_instance_node",
                     [instance_name |-> name, fail_if_not_found |-> fail_if_not_found,
                      store_fails |-> store_fails],
                     out.result)

DeleteNodes ==
    /\ flags.calls < MaxOps
    /\ \E names \in NameLists, continue_on_error \in BOOLEAN :
         \E faults \in SUBSET (1..Len(names)) :
          LET out == DeleteNodesByName(nodes, edges, names, continue_on_error, faults)
          IN /\ nodes' = out.nodes
             /\ edges' = out.edges
             /\ Done("delete_nodes_by_name",
                     [names |-> names, continue_on_error |-> continue_on_error,
                      faults |-> faults],
                     out.result)

DeleteObject ==
    /\ flags.calls < MaxOps
    /\ \E name \in DeleteNames, fail_if_not_found \in BOOLEAN :
          LET out == DeleteObjectByName(nodes, edges, name, fail_if_not_found)
          IN /\ nodes' = out.nodes
             /\ edges' = out.edges
             /\ Done("delete_object_by_name",
                     [object_name |-> name, fail_if_not_found |-> fail_if_not_found],
                     out.result)

CreateConcept ==
    /\ flags.calls < MaxOps
    /\ \E name \in ConceptNames, properties \in ConceptProperties,
          additional_labels \in {{}, {"Instance"}}, allow_update \in BOOLEAN :
          LET out == CreateConceptNode(nodes, name, properties, additional_labels,
                                       allow_update, flags.constraints)
          IN /\ nodes' = out.nodes
             /\ UNCHANGED edges
             /\ Done("create_concept_node",
                     [concept_name |-> name, properties |-> properties,
                      additional_labels |-> additional_labels,
                      allow_update |-> allow_update],
                     out.result)

CreateProperty ==
    /\ flags.calls < MaxOps
    /\ \E a \in PropertyCalls :
         \E out \in CreatePropertyNode(nodes, edges, a, flags.constraints) :
            /\ nodes' = out.nodes
            /\ edges' = out.edges
            /\ Done("create_property_node", a, out.result)

CreateCustom ==
    /\ flags.calls < MaxOps
    /\ \E label \in CustomLabels, name \in CustomNames :
          LET out == CreateCustomNode(nodes, label, name, {}, flags.constraints)
          IN /\ nodes' = out.nodes
             /\ UNCHANGED edges
             /\ Done("create_custom_node",
                     [label |-> label, name |-> name, additional_labels |-> {}],
                     out.result)

NextOps ==
    \/ DeleteInstance
    \/ DeleteNodes
    \/ DeleteObject
    \/ CreateConcept
    \/ CreateProperty
    \/ CreateCustom

SpecOps == InitOps /\ [][NextOps]_vars

(***************************************************************************)
(* Instances of a class whose ObjectProperties have names that differ in   *)
(* a space or a hyphen only: Table with the optional ObjectProperties      *)
(* "part of", "part-of" and o.                                             *)
(***************************************************************************)
PartSchemaNodes ==
    {Node(1, {"Class"}, "Table", None, NoProps, FALSE),
     PropertyNode(2, "part of", "ObjectProperty"),
     PropertyNode(3, "part-of", "ObjectProperty"),
     PropertyNode(4, "o", "ObjectProperty")}

PartSchemaEdges ==
    {Edge(1, "HAS_PROPERTY", 2, FALSE),
     Edge(1, "HAS_PROPERTY", 3, FALSE),
     Edge(1, "HAS_PROPERTY", 4, FALSE)}

\* the schema, the instances i1, i2 and i3 of Table with their
\* IS_INSTANCE_OF edges, and the ObjectProperty edges `links`; the
\* instances at which links start have been updated
PartGraph(links) ==
    [nodes |-> PartSchemaNodes
                 \cup {Node(5 + i, {"Instance"}, <<"i1", "i2", "i3">>[i + 1], "Table",
                            NoProps, \E l \in links : l.src = 5 + i) : i \in 0..2},
     edges |-> [e \in PartSchemaEdges
                      \cup {Edge(id, "IS_INSTANCE_OF", 1, FALSE) : id \in 5..7}
                      \cup links |-> 1]]

\* The graphs a behaviour starts from, each made by default calls on the
\* schema: i1, i2, i3 without properties; the same after an update of i1
\* with "part of" -> i2 and o -> i3 and an update of i2 with o -> i1.
Unlinked == PartGraph({})

PartLinked ==
    PartGraph({Edge(5, "PART_OF", 6, FALSE), Edge(5, "O", 7, FALSE),
               Edge(6, "O", 5, FALSE)})

PartHistories == {Unlinked, PartLinked}

\* calls of create_instance_node in one behaviour
MaxPartCalls == 2

PartTargets == {Scalar("i2"), Scalar("i3"), ListOf(<<"i1", "i3">>)}

\* the property dicts of the calls: one ObjectProperty, or o with another
PartProperties ==
    {[k \in {key} |-> t] : key \in {"part of", "part-of", "o"}, t \in PartTargets}
        \cup {[k \in {"part-of", "o"} |-> t] : t \in PartTargets}

PartCalls ==
    {Call(i, "Table", props, upd, TRUE, None, TRUE, TRUE) :
        i \in {"i1", "i2"}, props \in PartProperties, upd \in BOOLEAN}

InitParts ==
    /\ \E h \in PartHistories :
          /\ nodes = h.nodes
          /\ edges = h.edges
    /\ callers = [c \in Callers |-> IdleCaller]
    /\ flags = NoFlags
    /\ last = NoLast

\* one call of create_instance_node on an instance of the graph
UpdateParts ==
    /\ flags.calls < MaxPartCalls
    /\ \E a \in PartCalls :
         \E out \in CreateInstanceNode(nodes, edges, a) :
            /\ nodes' = out.nodes
            /\ edges' = out.edges
            /\ last' = [op |-> "create_instance_node", args |-> a,
                        before |-> [nodes |-> nodes, edges |-> edges],
                        result |-> out.result,
                        previous |-> IF last.op = None THEN NoLast
                                     ELSE [op |-> last.op, args |-> last.args,
                                           result |-> last.result]]
    /\ flags' = [flags EXCEPT !.calls = @ + 1]
    /\ UNCHANGED callers

NextParts == UpdateParts

SpecParts == InitParts /\ [][NextParts]_vars

(***************************************************************************)
(* create_instance_node on a store that may raise on relationship writes.  *)
(***************************************************************************)
\* calls of create_instance_node in one behaviour
MaxFaultCalls == 2

\* the relationship types on whose creation the store may raise
FaultTypes == {"IS_INSTANCE_OF", "O"}

FaultHistories == {Bare, OneInstance, TwoInstances}

FaultCalls ==
    {Call(i, "Table", props, upd, TRUE, None, rel, TRUE) :
        i \in InstanceNames,
        props \in {Full("v1"),
                   WithObject(Full("v1"), Scalar("i1")),
                   WithObject(Full("v1"), ListOf(<<"i1", "i2">>))},
        upd \in BOOLEAN, rel \in BOOLEAN}

InitFaults ==
    /\ \E h \in FaultHistories :
          /\ nodes = h.nodes
          /\ edges = h.edges
    /\ callers = [c \in Callers |-> IdleCaller]
    /\ flags = NoFlags
    /\ last = NoLast

\* one call of create_instance_node during which the store raises on the
\* create_relationship calls for the types `faults`
CreateDuringFaults ==
    /\ flags.calls < MaxFaultCalls
    /\ \E a \in FaultCalls, faults \in SUBSET FaultTypes :
         \E out \in CreateInstanceNodeOn(nodes, edges, a, faults) :
            /\ nodes' = out.nodes
            /\ edges' = out.edges
            /\ last' = [op |-> "create_instance_node", args |-> a,
                        faults |-> faults,
                        before |-> [nodes |-> nodes, edges |-> edges],
                        result |-> out.result,
                        previous |-> IF last.op = None THEN NoLast
                                     ELSE [op |-> last.op, args |-> last.args,
                                           result |-> last.result]]
    /\ flags' = [flags EXCEPT !.calls = @ + 1]
    /\ UNCHANGED callers

NextFaults == CreateDuringFaults

SpecFaults == InitFaults /\ [][NextFaults]_vars

(***************************************************************************)
(* The schema operations: create_subclass_relationship builds a hierarchy  *)
(* over the concepts, and validate_ontology, auto_detect_domain_label,     *)
(* _identify_property_types, check_property_inheritance and                *)
(* get_concept_properties read it.                                         *)
(***************************************************************************)
\* MATCH path = (c:Concept)-[:SUBCLASS_OF*2..]->(c): the trails of two
\* edges or more that come back to the Concept node they start at
CircularPaths(N, E) ==
    UNION {{w \in Trails(E, c.id) : Len(w) >= 3 /\ w[Len(w)] = c.id} :
             c \in {n \in N : "Concept" \in n.labels}}

\* validate_ontology: the three counting queries and the result built from
\* them (issues and warnings by their type)
ValidateOntology(N, E) ==
    LET orphaned_count ==
            Cardinality({n \in N : ~\E e \in DOMAIN E : e.src = n.id \/ e.dst = n.id})
        untyped_count ==
            Cardinality({i \in N :
                /\ "Instance" \in i.labels
                /\ ~\E e \in DOMAIN E :
                       /\ e.src = i.id
                       /\ e.type = "INSTANCE_OF"
                       /\ "Concept" \in NodeOf(N, e.dst).labels})
        circular_count == Cardinality(CircularPaths(N, E))
    IN [raised |-> FALSE,
        valid |-> untyped_count = 0 /\ circular_count = 0,
        issues |-> (IF untyped_count > 0 THEN {"untyped_instances"} ELSE {})
                     \cup (IF circular_count > 0 THEN {"circular_subclass"} ELSE {}),
        warnings |-> IF orphaned_count > 0 THEN {"orphaned_nodes"} ELSE {},
        statistics |-> [total_nodes |-> Cardinality(N),
                        orphaned_nodes |-> orphaned_count,
                        untyped_instances |-> untyped_count,
                        circular_references |-> circular_count]]

\* create_subclass_relationship: create_relationship between the two
\* labeled patterns; the outcomes [edges, result]
CreateSubclassRelationship(N, E, subclass_name, superclass_name, subclass_label, superclass_label) ==
    CreateRelationship(N, E, Pattern(subclass_label, subclass_name),
                       Pattern(superclass_label, superclass_name), "SUBCLASS_OF")

\* (c)-[:SUBCLASS_OF*]->(x) when only the end x is asked for: the nodes a
\* trail reaches are the nodes a chain of SUBCLASS_OF edges reaches
Reached(E, c) ==
    LET sub == {e \in DOMAIN E : e.type = "SUBCLASS_OF"}
        Step(S) == {e.dst : e \in {f \in sub : f.src \in S}}
        RECURSIVE Grow(_)
        Grow(S) == IF Step(S) \subseteq S THEN S ELSE Grow(S \cup Step(S))
    IN Grow(Step({c}))

\* (x)-[:SUBCLASS_OF*0..]->(ancestor)-[r:HAS_PROPERTY]->(p:Property) for
\* the nodes x of `starts`: the relationships r
DeclaredFrom(N, E, starts) ==
    LET reach == UNION {{x.id} \cup Reached(E, x.id) : x \in starts}
    IN {e \in DOMAIN E :
          /\ e.type = "HAS_PROPERTY"
          /\ e.src \in reach
          /\ "Property" \in NodeOf(N, e.dst).labels}

\* superclass_props_query: one record per HAS_PROPERTY relationship from
\* the superclass or a node it reaches to a Property node, ORDER BY p.name
SuperclassProps(N, E, superclass_name, superclass_label) ==
    SortedRows(
        {[row |-> Row(NodeOf(N, e.dst).name,
                      IF NodeOf(N, e.src).name = superclass_name
                      THEN "direct" ELSE "inherited",
                      NodeOf(N, e.src).name),
          key |-> <<Rank(NodeOf(N, e.dst).name), 0>>,
          n |-> E[e], edge |-> e] :
            e \in DeclaredFrom(N, E, MatchLabeled(N, superclass_label, superclass_name))})

\* override_check_query: has_override, the count of the HAS_PROPERTY
\* relationships to a Property named prop_name among `declared` (those of
\* the subclass and of the nodes it reaches) that leave a node whose name
\* is not the superclass name
HasOverride(N, declared, superclass_name, prop_name) ==
    \E e \in declared :
        /\ NodeOf(N, e.dst).name = prop_name
        /\ NodeOf(N, e.src).name # superclass_name

\* get_concept_properties, direct_query: one record per HAS_PROPERTY
\* relationship from the concept to a Property node
ConceptDirectRows(N, E, concept_name, concept_label) ==
    SortedRows(
        {[row |-> Row(NodeOf(N, x[2].dst).name, "direct", x[1].name),
          key |-> <<Rank(NodeOf(N, x[2].dst).name), 0>>,
          n |-> E[x[2]], edge |-> x[2]] :
            x \in {y \in MatchLabeled(N, concept_label, concept_name) \X DOMAIN E :
                     /\ y[2] \in HasPropertyEdges(E, y[1].id)
                     /\ "Property" \in NodeOf(N, y[2].dst).labels}})

\* get_concept_properties, inherited_query: one record per path from the
\* concept to a parent that carries concept_label and per HAS_PROPERTY
\* relationship of that parent to a Property node the concept does not
\* declare itself, ORDER BY parent.name
ConceptInheritedRows(N, E, concept_name, concept_label) ==
    SortedRows(
        {[row |-> Row(NodeOf(N, x[2].dst).name, "inherited", NodeOf(N, x[2].src).name),
          key |-> <<Rank(NodeOf(N, x[2].src).name), 0>>,
          n |-> E[x[2]] * Cardinality({w \in Trails(E, x[1].id) :
                                         Len(w) >= 2 /\ w[Len(w)] = x[2].src}),
          edge |-> x[2], from |-> x[1].id] :
            x \in {y \in MatchLabeled(N, concept_label, concept_name) \X DOMAIN E :
                     /\ y[2].type = "HAS_PROPERTY"
                     /\ y[2].src \in Reached(E, y[1].id)
                     /\ concept_label \in NodeOf(N, y[2].src).labels
                     /\ "Property" \in NodeOf(N, y[2].dst).labels
                     /\ CountBetween(E, y[1].id, "HAS_PROPERTY", y[2].dst) = 0}})

\* get_concept_properties: the outcomes [raised, error, properties], one
\* per label auto_detect_domain_label may hand back
GetConceptProperties(N, E, concept_name, concept_label, include_inherited) ==
    LET detected ==
            IF concept_label = None THEN AutoDetectDomainLabel(N, concept_name)
            ELSE {[error |-> None, label |-> concept_label]}
        With(label) ==
            IF label \notin {"Concept", "Class"}
            THEN [raised |-> TRUE, error |-> "only supports Concept or Class nodes",
                  properties |-> <<>>]
            ELSE [raised |-> FALSE, error |-> None,
                  properties |->
                      ConceptDirectRows(N, E, concept_name, label)
                        \o (IF include_inherited
                            THEN ConceptInheritedRows(N, E, concept_name, label)
                            ELSE <<>>)]
    IN {IF d.error # None
        THEN [raised |-> TRUE, error |-> d.error, properties |-> <<>>]
        ELSE With(d.label) : d \in detected}

InheritanceRaised(error) ==
    [raised |-> TRUE, error |-> error, inheritance_exists |-> FALSE,
     inherited_properties |-> <<>>, overridden_properties |-> <<>>,
     total_inherited |-> 0, total_overridden |-> 0,
     total_available_from_superclass |-> 0]

\* check_property_inheritance: the outcomes, one per label that
\* auto_detect_domain_label may hand back
CheckPropertyInheritance(N, E, subclass_name, superclass_name, subclass_label, superclass_label) ==
    LET Detected(name, label) ==
            IF label = None THEN AutoDetectDomainLabel(N, name)
            ELSE {[error |-> None, label |-> label]}
        With(sub_l, super_l) ==
            LET rel_exists ==
                    \E sub \in MatchLabeled(N, sub_l, subclass_name),
                       super \in MatchLabeled(N, super_l, superclass_name) :
                        super.id \in Reached(E, sub.id)
                superclass_props == SuperclassProps(N, E, superclass_name, super_l)
                declared == DeclaredFrom(N, E, MatchLabeled(N, sub_l, subclass_name))
                Overridden(prop) ==
                    HasOverride(N, declared, superclass_name, prop.property_name)
                inherited_props == SelectSeq(superclass_props, LAMBDA r : ~Overridden(r))
                overridden_props == SelectSeq(superclass_props, Overridden)
            IN IF ~rel_exists
               THEN [InheritanceRaised(None) EXCEPT !.raised = FALSE]
               ELSE [raised |-> FALSE, error |-> None, inheritance_exists |-> TRUE,
                     inherited_properties |-> inherited_props,
                     overridden_properties |-> overridden_props,
                     total_inherited |-> Len(inherited_props),
                     total_overridden |-> Len(overridden_props),
                     total_available_from_superclass |-> Len(superclass_props)]
    IN UNION {IF d.error # None THEN {InheritanceRaised(d.error)}
              ELSE {IF u.error # None THEN InheritanceRaised(u.error)
                    ELSE With(d.label, u.label) :
                      u \in Detected(superclass_name, superclass_label)} :
                d \in Detected(subclass_name, subclass_label)}

\* The concepts A (a Class), B and C with the properties p and q, as
\* create_concept_node, create_custom_node and create_property_node make
\* them.
HierNodes ==
    {Node(1, {"Class"}, "A", None, NoProps, FALSE),
     Node(2, {"Concept"}, "B", None, NoProps, FALSE),
     Node(3, {"Concept"}, "C", None, NoProps, FALSE),
     PropertyNode(4, "p", "DataProperty"),
     PropertyNode(5, "q", "ObjectProperty")}

\* Nodes made by create_custom_node next to them: a Class that is also
\* named B, a node d without a label of labels_to_constrain, a Property o
\* that has no property_type, and a node Table with two labels of
\* labels_to_constrain.
HierExtras ==
    {Node(6, {"Class"}, "B", None, NoProps, FALSE),
     Node(7, {"Tag", "Topic"}, "d", None, NoProps, FALSE),
     Node(8, {"Property"}, "o", None, NoProps, FALSE),
     Node(9, {"Tag", "Individual", "Class"}, "Table", None, NoProps, FALSE)}

\* the HAS_PROPERTY edges of the pairs <<concept, property, required>>
Declared(pairs) == [e \in {Edge(x[1], "HAS_PROPERTY", x[2], x[3]) : x \in pairs} |-> 1]

\* The graphs a behaviour starts from: nodes and property declarations,
\* no SUBCLASS_OF edge yet.
HierHistories ==
    {[nodes |-> HierNodes, edges |-> NoEdges],
     [nodes |-> HierNodes, edges |-> Declared({<<1, 4, TRUE>>})],
     [nodes |-> HierNodes,
      edges |-> Declared({<<1, 4, TRUE>>, <<2, 4, FALSE>>, <<3, 5, FALSE>>})],
     [nodes |-> HierNodes, edges |-> Declared({<<2, 4, TRUE>>, <<1, 5, TRUE>>})],
     [nodes |-> HierNodes \cup HierExtras,
      edges |-> Declared({<<2, 4, FALSE>>, <<6, 4, TRUE>>})]}

\* SUBCLASS_OF edges in one behaviour
MaxSubclassEdges == 3

HierNames == {"A", "B", "C"}

\* the label pairs <<subclass_label, superclass_label>> it is called with,
\* the default first
HierLabels == {<<"Concept", "Concept">>, <<"Concept", "Class">>, <<"Class", "Class">>}

\* the names auto_detect_domain_label is asked for
DetectNames == {"A", "B", "C", "d", "o", "p", "Table", "Ghost"}

\* the lists _identify_property_types is asked for
PropertyLists == {<<>>, <<"p">>, <<"p", "q">>, <<"q", "Ghost", "q">>, <<"o", "d", "A">>}

\* the names and the label pairs check_property_inheritance is asked for
InheritanceNames == {"A", "B", "C", "Ghost"}

InheritanceLabels ==
    {<<None, None>>, <<"Concept", "Concept">>, <<"Concept", "Class">>, <<"Class", "Class">>}

\* the labels get_concept_properties is asked with
ConceptQueryLabels == {None, "Concept", "Class", "Property"}

InitSchema ==
    /\ \E h \in HierHistories :
          /\ nodes = h.nodes
          /\ edges = h.edges
    /\ callers = [c \in Callers |-> IdleCaller]
    /\ flags = NoFlags
    /\ last = NoLast

\* no query has been answered yet (the queries write nothing: one query
\* per hierarchy built shows all there is)
Building == last.op \in {None, "create_subclass_relationship"}

\* what a query leaves: the graph as it is
Answered(op, args, result) ==
    /\ Building
    /\ last' = [op |-> op, args |-> args, result |-> result]
    /\ UNCHANGED <<nodes, edges, callers, flags>>

CreateSubclass ==
    /\ Building
    /\ EdgeTotal(edges, {e \in DOMAIN edges : e.type = "SUBCLASS_OF"}) < MaxSubclassEdges
    /\ \E sub \in HierNames, super \in HierNames, l \in HierLabels :
         \E out \in CreateSubclassRelationship(nodes, edges, sub, super, l[1], l[2]) :
            /\ edges' = out.edges
            /\ last' = [op |-> "create_subclass_relationship", result |-> out.result]
            /\ UNCHANGED <<nodes, callers, flags>>

Validate ==
    Answered("validate_ontology", <<>>, ValidateOntology(nodes, edges))

DetectLabel ==
    \E name \in DetectNames :
        \E out \in AutoDetectDomainLabel(nodes, name) :
            Answered("auto_detect_domain_label", [name |-> name], out)

IdentifyTypes ==
    \E names \in PropertyLists :
        \E out \in IdentifyPropertyTypes(nodes, {names[i] : i \in 1..Len(names)}) :
            Answered("_identify_property_types", [property_names |-> names], out)

CheckInheritance ==
    \E sub \in InheritanceNames, super \in InheritanceNames, l \in InheritanceLabels :
        \E out \in CheckPropertyInheritance(nodes, edges, sub, super, l[1], l[2]) :
            Answered("check_property_inheritance",
                     [subclass_name |-> sub, superclass_name |-> super,
                      subclass_label |-> l[1], superclass_label |-> l[2]],
                     out)

QueryConceptProperties ==
    \E name \in HierNames, label \in ConceptQueryLabels, include_inherited \in BOOLEAN :
        \E out \in GetConceptProperties(nodes, edges, name, label, include_inherited) :
            Answered("get_concept_properties",
                     [concept_name |-> name, concept_label |-> label,
                      include_inherited |-> include_inherited],
                     out)

NextSchema ==
    \/ CreateSubclass
    \/ Validate
    \/ DetectLabel
    \/ IdentifyTypes
    \/ CheckInheritance
    \/ QueryConceptProperties

SpecSchema == InitSchema /\ [][NextSchema]_vars

(***************************************************************************)
(* create_instance_node step by step: the concept check, the               *)
(* required-property validation and the target check, each a read of the   *)
(* store, and then the statements that write.  Class Table requires the    *)
(* data property d and the ObjectProperty o.                               *)
(***************************************************************************)
StepSchemaNodes ==
    {Node(1, {"Class"}, "Table", None, NoProps, FALSE),
     PropertyNode(2, "d", "DataProperty"),
     PropertyNode(3, "o", "ObjectProperty")}

StepSchemaEdges ==
    {Edge(1, "HAS_PROPERTY", 2, TRUE), Edge(1, "HAS_PROPERTY", 3, TRUE)}

\* the property dicts of the calls
OnlyData == [k \in {"d"} |-> Scalar("v1")]

\* The graphs a behaviour starts from: the schema; the schema with i2,
\* created with d and o -> i2 and without ObjectProperty relationships;
\* and that graph with i1, created by a default call with d and o -> i2.
StepBare == [nodes |-> StepSchemaNodes, edges |-> [e \in StepSchemaEdges |-> 1]]

StepOne ==
    [nodes |-> StepSchemaNodes \cup {Node(4, {"Instance"}, "i2", "Table", OnlyData, FALSE)},
     edges |-> [e \in StepSchemaEdges \cup {Edge(4, "IS_INSTANCE_OF", 1, FALSE)} |-> 1]]

StepTwo ==
    [nodes |-> StepOne.nodes \cup {Node(5, {"Instance"}, "i1", "Table", OnlyData, FALSE)},
     edges |-> [e \in DOMAIN StepOne.edges
                      \cup {Edge(5, "IS_INSTANCE_OF", 1, FALSE), Edge(5, "O", 4, FALSE)}
                  |-> 1]]

StepHistories == {StepBare, StepOne, StepTwo}

StepProperties ==
    {NoProps,
     OnlyData,
     [k \in {"o"} |-> Scalar("i2")],
     WithObject(OnlyData, Scalar("i2")),
     WithObject(OnlyData, Scalar("i3")),
     WithObject(OnlyData, ListOf(<<"i2", "i3">>)),
     WithName(WithObject(OnlyData, Scalar("i2")), "i3"),
     WithName(WithObject(OnlyData, Scalar("i2")), "i2")}

StepCalls ==
    {Call("i1", c, props, upd, val, None, rel, obj) :
        c \in {"Table", "Ghost"}, props \in StepProperties,
        upd \in BOOLEAN, val \in BOOLEAN, rel \in BOOLEAN, obj \in BOOLEAN}

\* the statement that follows a check that passed, the target check left out
StepAfterNoTargets(pc) ==
    CASE pc = "concept" -> "required"
      [] OTHER -> "write"

\* the statement that follows a check that passed: the concept check, the
\* required-property validation, the target check, the writes
StepAfter(pc) ==
    CASE pc = "concept" -> "required"
      [] pc = "required" -> "targets"
      [] OTHER -> "write"

\* the provided properties are not handed to the validation
ValidationPropsNone(properties) == {}

\* validation_props: the keys of the provided properties, name excluded
ValidationProps(properties) == DOMAIN properties \ {"name"}

InitSteps ==
    /\ \E h \in StepHistories :
          /\ nodes = h.nodes
          /\ edges = h.edges
    /\ callers = [c \in Callers |-> IdleCaller]
    /\ flags = NoFlags
    /\ last = NoLast

\* the call goes on with its next statement
Passed(concept_label) ==
    /\ callers' = [callers EXCEPT ![1] =
                      [callers[1] EXCEPT !.pc = StepAfter(callers[1].pc),
                                         !.checked = @ \cup {callers[1].pc},
                                         !.concept_label = concept_label]]
    /\ UNCHANGED <<nodes, edges, flags, last>>

\* the call returns, or raises when result.status is "raised"
Returned(result) ==
    /\ callers' = [callers EXCEPT ![1] = [callers[1] EXCEPT !.pc = "done"]]
    /\ last' = [op |-> "create_instance_node", args |-> callers[1].args,
                before |-> callers[1].before, result |-> result,
                checked |-> callers[1].checked,
                concept_label |-> callers[1].concept_label]
    /\ UNCHANGED flags

\* a call arrives (one call per behaviour: each starts from a graph of
\* StepHistories)
StepBegin ==
    /\ callers[1] = IdleCaller
    /\ last = NoLast
    /\ \E a \in StepCalls :
          callers' = [callers EXCEPT ![1] =
                         [pc |-> "concept", args |-> a,
                          before |-> [nodes |-> nodes, edges |-> edges],
                          checked |-> {}, concept_label |-> a.concept_label]]
    /\ UNCHANGED <<nodes, edges, flags, last>>

\* the concept-existence check
StepConcept ==
    /\ callers[1].pc = "concept"
    /\ \E c \in ConceptCheck(nodes, callers[1].args.concept_type,
                             callers[1].args.concept_label,
                             callers[1].args.auto_create_relationship) :
          IF c.error # None
          THEN Returned(Raised(c.error)) /\ UNCHANGED <<nodes, edges>>
          ELSE Passed(c.concept_label)

\* the required-property validation
StepRequired ==
    /\ callers[1].pc = "required"
    /\ LET a == callers[1].args
           validation ==
               ValidateInstanceProperties(nodes, edges, a.concept_type,
                                          ValidationProps(a.properties),
                                          callers[1].concept_label, TRUE)
       IN IF a.validate_required_properties /\ validation.raised
          THEN /\ Returned([Raised("Missing required properties") EXCEPT
                              !.missing_properties = validation.missing_properties])
               /\ UNCHANGED <<nodes, edges>>
          ELSE Passed(callers[1].concept_label)

\* the ObjectProperty target check
StepTargets ==
    /\ callers[1].pc = "targets"
    /\ LET a == callers[1].args
           property_names == DOMAIN a.properties \ {"name"}
       IN \E property_types \in IdentifyPropertyTypes(nodes, property_names) :
            LET object_properties ==
                    [k \in {x \in property_names : property_types[x] = "ObjectProperty"}
                       |-> a.properties[k]]
                missing_targets ==
                    IF a.auto_create_object_property_relationships
                       /\ DOMAIN object_properties # {}
                    THEN ValidateObjectPropertyTargets(nodes, object_properties)
                    ELSE <<>>
            IN IF missing_targets # <<>>
               THEN /\ Returned([Raised("ObjectProperty validation failed") EXCEPT
                                   !.missing_targets = missing_targets])
                    /\ UNCHANGED <<nodes, edges>>
               ELSE Passed(callers[1].concept_label)

\* the lookup of the instance and what follows it: the update of the
\* existing node or the creation of the node and of its edges
StepWrite ==
    /\ callers[1].pc = "write"
    /\ \E out \in CreateInstanceNode(nodes, edges, callers[1].args) :
          /\ nodes' = out.nodes
          /\ edges' = out.edges
          /\ Returned(out.result)

NextSteps ==
    \/ StepBegin
    \/ StepConcept
    \/ StepRequired
    \/ StepTargets
    \/ StepWrite

SpecSteps == InitSteps /\ [][NextSteps]_vars

(***************************************************************************)
(* Neo4jService.execute_write and the failures of the store.               *)
(***************************************************************************)
\* write queries run in one behaviour
MaxWrites == 3

\* A message of the driver is the sequence of its words.  str.lower() on
\* one word
Lower(word) ==
    CASE word = "Node" -> "node"
      [] word = "Both" -> "both"
      [] word = "Connection" -> "connection"
      [] OTHER -> word

\* str(e).lower()
LowerAll(message) == [i \in DOMAIN message |-> Lower(message[i])]

\* an execute_write that takes no constraint error for "already exists"
SaysNothing(error_msg) == FALSE

\* "already exists" in error_msg
SaysAlreadyExists(error_msg) ==
    \E i \in 1..(Len(error_msg) - 1) :
        error_msg[i] = "already" /\ error_msg[i + 1] = "exists"

\* what session.run raises: the class of the exception and its message
Failure(class, message) == [class |-> class, message |-> message]

NoFailure == Failure(None, <<>>)

\* the store on a node whose name a uniqueness constraint forbids
UniqueFailure ==
    Failure("ConstraintError", <<"Node", "already", "exists", "with", "label">>)

\* the store on a node that lacks a property an existence constraint asks for
ExistenceFailure ==
    Failure("ConstraintError", <<"Node", "must", "have", "the", "property">>)

\* the store on a uniqueness constraint that the nodes in place contradict
CreationFailure ==
    Failure("ClientError", <<"Both", "Node", "and", "Node", "have", "the", "label">>)

\* the connection to the store breaks
ConnectionFailure == Failure("ServiceUnavailable", <<"Connection", "lost">>)

\* the failures that do not depend on the nodes in place
StoreFaults == {ExistenceFailure, ConnectionFailure}

\* the counters of summary.counters
CounterKeys ==
    {"nodes_created", "nodes_deleted", "relationships_created",
     "relationships_deleted", "properties_set", "labels_added",
     "labels_removed", "indexes_added", "indexes_removed",
     "constraints_added", "constraints_removed"}

\* the statistics of a query that ran: no status and no warning among them
Stats(records, counted) ==
    [k \in CounterKeys \cup {"records"} |->
        IF k = "records" THEN records
        ELSE IF k \in DOMAIN counted THEN counted[k] ELSE 0]

\* the statistics returned for a write that was skipped
Skipped(failure) ==
    [k \in CounterKeys \cup {"records", "status", "warning"} |->
        CASE k = "status" -> "already_exists"
          [] k = "warning" ->
               <<"Item", "already", "exists", "and", "was", "skipped:">>
                   \o failure.message
          [] k = "records" -> <<>>
          [] OTHER -> 0]

\* result.get(key)
ResultGet(result, key) == IF key \in DOMAIN result THEN result[key] ELSE None

\* Neo4jService.was_skipped_due_to_constraint
WasSkippedDueToConstraint(result) == ResultGet(result, "status") = "already_exists"

\* the store: its nodes and the labels under a uniqueness constraint
Store(N, constraints) == [nodes |-> N, constraints |-> constraints]

\* what execute_write hands to its caller: the store after it, and either
\* the statistics or the exception raised
WriteOutcome(store, raised, error, result) ==
    [store |-> store, raised |-> raised, error |-> error, result |-> result]

\* Neo4jService.execute_write on a query that the store answers with
\* `failure`; `written` is the store once the query is committed.  A
\* constraint error leaves the store as it was; after any other failure the
\* query may or may not have been committed.
ExecuteWrite(store, written, stats, failure) ==
    IF failure = NoFailure
    THEN {WriteOutcome(written, FALSE, <<>>, stats)}
    ELSE IF failure.class = "ConstraintError"
    THEN IF SaysAlreadyExists(LowerAll(failure.message))
         THEN {WriteOutcome(store, FALSE, <<>>, Skipped(failure))}
         ELSE {WriteOutcome(store, TRUE,
                            <<"Constraint", "error:">> \o failure.message, <<>>)}
    ELSE {WriteOutcome(s, TRUE,
                       <<"Failed", "to", "execute", "write", "query:">>
                           \o failure.message, <<>>) : s \in {store, written}}

\* what the store answers to CREATE (n:labels $properties): the fault of
\* the environment if there is one, else the uniqueness constraints
StoreOnCreate(N, labels, name, constraints, fault) ==
    IF fault # NoFailure THEN fault
    ELSE IF ConstraintViolated(N, labels, name, constraints) THEN UniqueFailure
    ELSE NoFailure

\* Neo4jService.create_node, the query handed to execute_write
CreateNodeWrite(N, label, name, properties, additional_labels, constraints, fault) ==
    LET labels == {label} \cup additional_labels
        node == Node(NewId(N), labels, name, None, properties, FALSE)
        written == IF ConstraintViolated(N, labels, name, constraints)
                   THEN N ELSE N \cup {node}
        stats == Stats(<<node.id>>,
                       [nodes_created |-> 1,
                        labels_added |-> Cardinality(labels),
                        properties_set |-> Cardinality(DOMAIN properties) + 1])
    IN ExecuteWrite(Store(N, constraints), Store(written, constraints), stats,
                    StoreOnCreate(N, labels, name, constraints, fault))

\* two nodes of one label have one name
Duplicates(N, label) ==
    \E a, b \in N : a # b /\ label \in a.labels \cap b.labels /\ a.name = b.name

\* what the store answers to CREATE CONSTRAINT ... IF NOT EXISTS
StoreOnConstraint(store, label) ==
    IF label \notin store.constraints /\ Duplicates(store.nodes, label)
    THEN CreationFailure
    ELSE NoFailure

\* the loop of setup_uniqueness_constraints from the i-th label on: a label
\* whose query raised is left out of constraints_created
RECURSIVE SetupFrom(_, _, _)
SetupFrom(store, i, constraints_created) ==
    IF i > Len(labels_to_constrain)
    THEN {[store |-> store, constraints_created |-> constraints_created]}
    ELSE LET label == labels_to_constrain[i]
             added == IF label \in store.constraints THEN 0 ELSE 1
             written == IF StoreOnConstraint(store, label) = CreationFailure
                        THEN store
                        ELSE Store(store.nodes, store.constraints \cup {label})
             outs == ExecuteWrite(store, written,
                                  Stats(<<>>, [constraints_added |-> added]),
                                  StoreOnConstraint(store, label))
         IN UNION {SetupFrom(out.store, i + 1,
                             IF out.raised THEN constraints_created
                             ELSE Append(constraints_created, label)) :
                      out \in outs}

\* setup_uniqueness_constraints
SetupUniquenessConstraints(store) ==
    {[store |-> out.store,
      result |-> [constraints_created |-> out.constraints_created,
                  total_created |-> Len(out.constraints_created)]] :
        out \in SetupFrom(store, 1, <<>>)}

WriteLabels == {"Concept", "Instance", "Tag"}

WriteNames == {"a", "b"}

InitWrite ==
    /\ nodes = {}
    /\ edges = NoEdges
    /\ callers = [c \in Callers |-> IdleCaller]
    /\ \E c \in {{}, ConstrainedLabels} : flags = [calls |-> 0, constraints |-> c]
    /\ last = NoLast

\* one create_node call, with the store failing or not
WriteNode ==
    /\ flags.calls < MaxWrites
    /\ \E label \in WriteLabels, name \in WriteNames,
          fault \in StoreFaults \cup {NoFailure} :
         \E out \in CreateNodeWrite(nodes, label, name, NoProps, {},
                                    flags.constraints, fault) :
            /\ nodes' = out.store.nodes
            /\ flags' = [calls |-> flags.calls + 1,
                         constraints |-> out.store.constraints]
            /\ last' = [op |-> "execute_write",
                        args |-> [label |-> label, name |-> name],
                        failure |-> StoreOnCreate(nodes, {label}, name,
                                                  flags.constraints, fault),
                        before |-> Store(nodes, flags.constraints),
                        raised |-> out.raised, error |-> out.error,
                        result |-> out.result]
    /\ UNCHANGED <<edges, callers>>

\* one setup_uniqueness_constraints call
SetupConstraints ==
    /\ flags.calls < MaxWrites
    /\ \E out \in SetupUniquenessConstraints(Store(nodes, flags.constraints)) :
            /\ nodes' = out.store.nodes
            /\ flags' = [calls |-> flags.calls + 1,
                         constraints |-> out.store.constraints]
            /\ last' = [op |-> "setup_uniqueness_constraints",
                        before |-> Store(nodes, flags.constraints),
                        result |-> out.result]
    /\ UNCHANGED <<edges, callers>>

NextWrite == WriteNode \/ SetupConstraints

SpecWrite == InitWrite /\ [][NextWrite]_vars

(***************************************************************************)
(* An ontology built from nothing by the create operations of the          *)
(* service, and validated.                                                 *)
(***************************************************************************)
\* create operations in one behaviour
MaxBuilds == 4

BuiltConcepts == {"Table", "A"}

BuiltInstances == {"i1", "i2"}

InitBuilt ==
    /\ nodes = {}
    /\ edges = NoEdges
    /\ callers = [c \in Callers |-> IdleCaller]
    /\ flags = [calls |-> 0, constraints |-> {}]
    /\ last = NoLast

\* the guard of the create operations: validate_ontology is the last call
Builds == flags.calls < MaxBuilds /\ last.op # "validate_ontology"

\* what a create operation leaves in last and flags
Built(op, args, result) ==
    /\ last' = [op |-> op, args |-> args, result |-> result]
    /\ flags' = [flags EXCEPT !.calls = @ + 1]
    /\ UNCHANGED callers

BuildConcept ==
    /\ Builds
    /\ \E name \in BuiltConcepts :
          LET out == CreateConceptNode(nodes, name, NoProps, {}, FALSE, flags.constraints)
          IN /\ nodes' = out.nodes
             /\ UNCHANGED edges
             /\ Built("create_concept_node", [concept_name |-> name], out.result)

BuildSubclass ==
    /\ Builds
    /\ \E sub \in BuiltConcepts, super \in BuiltConcepts :
         \E out \in CreateSubclassRelationship(nodes, edges, sub, super,
                                               "Concept", "Concept") :
            /\ edges' = out.edges
            /\ UNCHANGED nodes
            /\ Built("create_subclass_relationship",
                     [subclass_name |-> sub, superclass_name |-> super], out.result)

BuildInstance ==
    /\ Builds
    /\ \E i \in BuiltInstances, c \in BuiltConcepts, rel \in BOOLEAN :
         LET a == Call(i, c, NoProps, FALSE, FALSE, None, rel, FALSE)
         IN \E out \in CreateInstanceNode(nodes, edges, a) :
               /\ nodes' = out.nodes
               /\ edges' = out.edges
               /\ Built("create_instance_node", a, out.result)

ValidateBuilt ==
    /\ last.op # "validate_ontology"
    /\ last' = [op |-> "validate_ontology", args |-> <<>>,
                result |-> ValidateOntology(nodes, edges)]
    /\ UNCHANGED <<nodes, edges, callers, flags>>

NextBuilt == BuildConcept \/ BuildSubclass \/ BuildInstance \/ ValidateBuilt

SpecBuilt == InitBuilt /\ [][NextBuilt]_vars

(***************************************************************************)
(* Concurrent calls of create_instance_node and delete_instance_node.      *)
(* Every action is one round trip to the store; the reads of a call that   *)
(* no other call of the model can influence (the concept check) are taken  *)
(* together with the lookup that follows them.                             *)
(***************************************************************************)
\* the graph the calls start on: class Table with its instances i1 and i3
RaceNodes ==
    {Node(1, {"Class"}, "Table", None, NoProps, FALSE),
     Node(2, {"Instance"}, "i1", "Table", NoProps, FALSE),
     Node(3, {"Instance"}, "i3", "Table", NoProps, FALSE)}

RaceEdges == {Edge(2, "IS_INSTANCE_OF", 1, FALSE), Edge(3, "IS_INSTANCE_OF", 1, FALSE)}

\* a call: create_instance_node(instance_name, "Table", properties,
\* allow_update) with properties = {"name": new_name} or none, or
\* delete_instance_node(instance_name, fail_if_not_found)
RaceCall(op, instance_name, new_name, allow_update, fail_if_not_found) ==
    [op |-> op, instance_name |-> instance_name, new_name |-> new_name,
     allow_update |-> allow_update, fail_if_not_found |-> fail_if_not_found]

RaceCalls ==
    {RaceCall("create_instance_node", "i2", None, FALSE, FALSE),
     RaceCall("create_instance_node", "i1", "i2", TRUE, FALSE),
     RaceCall("create_instance_node", "i3", "i2", TRUE, FALSE),
     RaceCall("delete_instance_node", "i1", None, FALSE, TRUE),
     RaceCall("delete_instance_node", "i1", None, FALSE, FALSE),
     RaceCall("delete_instance_node", "i2", None, FALSE, TRUE)}

\* what a call hands back
RaceResult(status, nodes_created, nodes_updated, nodes_deleted, relationships_created, auto_rel) ==
    [status |-> status, nodes_created |-> nodes_created,
     nodes_updated |-> nodes_updated, nodes_deleted |-> nodes_deleted,
     relationships_created |-> relationships_created,
     auto_relationship_created |-> auto_rel, relationship_status |-> None]

NoRaceResult == RaceResult(None, 0, 0, 0, 0, FALSE)

RaceRaised == RaceResult("raised", 0, 0, 0, 0, FALSE)

\* a caller: its call, where it stands in it, the local variables
\* instance_name (name) and concept_label, and its result
RaceIdle ==
    [pc |-> "idle", call |-> RaceCall(None, None, None, FALSE, FALSE),
     name |-> None, concept_label |-> None, result |-> NoRaceResult]

InitRace ==
    /\ nodes = RaceNodes
    /\ edges = [e \in RaceEdges |-> 1]
    /\ callers = [c \in Callers |-> RaceIdle]
    /\ \E k \in {{}, ConstrainedLabels} : flags = [calls |-> 0, constraints |-> k]
    /\ last = NoLast

\* caller c moves to pc with the result so far
Goes(c, pc, result) ==
    callers' = [callers EXCEPT ![c].pc = pc, ![c].result = result]

\* every deletion is reported as deleted
DeleteStatusAlways(nodes_deleted) == "deleted"

\* delete_instance_node: the status after the DETACH DELETE
DeleteStatus(nodes_deleted) == IF nodes_deleted > 0 THEN "deleted" ELSE "no_op"

\* a caller starts a call
RaceStart(c) ==
    /\ callers[c].pc = "idle"
    /\ \E a \in RaceCalls :
          callers' = [callers EXCEPT ![c] =
                         [RaceIdle EXCEPT !.pc = "lookup", !.call = a,
                                          !.name = a.instance_name]]
    /\ UNCHANGED <<nodes, edges, flags, last>>

\* delete_instance_node: get_existing_node(instance_name, "Instance")
DeleteLookup(c) ==
    /\ callers[c].pc = "lookup"
    /\ callers[c].call.op = "delete_instance_node"
    /\ IF GetExistingNode(nodes, callers[c].name, "Instance") # {}
       THEN Goes(c, "delete", NoRaceResult)
       ELSE IF callers[c].call.fail_if_not_found
       THEN Goes(c, "done", RaceRaised)
       ELSE Goes(c, "done", RaceResult("not_found", 0, 0, 0, 0, FALSE))
    /\ UNCHANGED <<nodes, edges, flags, last>>

\* delete_instance_node: MATCH (n:Instance {name: $name}) DETACH DELETE n
DeleteWrite(c) ==
    /\ callers[c].pc = "delete"
    /\ LET write == DetachDelete(nodes, edges,
                                 MatchLabeled(nodes, "Instance", callers[c].name))
       IN /\ nodes' = write.nodes
          /\ edges' = write.edges
          /\ Goes(c, "done",
                  RaceResult(DeleteStatus(write.nodes_deleted), 0, 0,
                             write.nodes_deleted, 0, FALSE))
    /\ UNCHANGED <<flags, last>>

\* create_instance_node: the concept check and the lookup of the instance
CreateLookup(c) ==
    /\ callers[c].pc = "lookup"
    /\ callers[c].call.op = "create_instance_node"
    /\ LET a == callers[c].call
           renames == a.new_name \notin {None, a.instance_name}
       IN \E d \in AutoDetectDomainLabel(nodes, "Table") :
            IF d.error # None \/ GetExistingNode(nodes, "Table", d.label) = {}
            THEN Goes(c, "done", RaceRaised)
            ELSE IF GetExistingNode(nodes, a.instance_name, "Instance") = {}
            THEN callers' = [callers EXCEPT
                                ![c].pc = "merge",
                                ![c].concept_label = d.label,
                                ![c].name = IF a.new_name # None THEN a.new_name
                                            ELSE a.instance_name]
            ELSE IF a.allow_update /\ a.new_name # None
            THEN Goes(c, IF renames THEN "rename_source" ELSE "update", NoRaceResult)
            ELSE IF renames
            THEN Goes(c, "done", RaceRaised)
            ELSE Goes(c, "done", RaceResult("already_exists", 0, 0, 0, 0, FALSE))
    /\ UNCHANGED <<nodes, edges, flags, last>>

\* _rename_node: get_existing_node(old_name, label)
RenameSource(c) ==
    /\ callers[c].pc = "rename_source"
    /\ IF GetExistingNode(nodes, callers[c].name, "Instance") = {}
       THEN Goes(c, "done", RaceRaised)
       ELSE Goes(c, "rename_check", NoRaceResult)
    /\ UNCHANGED <<nodes, edges, flags, last>>

\* _rename_node: check_name_exists(new_name, label)
RenameCheck(c) ==
    /\ callers[c].pc = "rename_check"
    /\ IF CheckNameExists(nodes, callers[c].call.new_name, "Instance")
       THEN Goes(c, "done", RaceRaised)
       ELSE Goes(c, "rename_set", NoRaceResult)
    /\ UNCHANGED <<nodes, edges, flags, last>>

\* _rename_node: MATCH (n:Instance {name: $old_name}) SET n.name.  With the
\* uniqueness constraint declared the store refuses a name in use, which
\* execute_write turns into a skipped write; the call goes on as renamed.
RenameSet(c) ==
    /\ callers[c].pc = "rename_set"
    /\ LET old_name == callers[c].name
           new_name == callers[c].call.new_name
           matched == MatchLabeled(nodes, "Instance", old_name)
           refused == /\ "Instance" \in flags.constraints
                      /\ matched # {}
                      /\ \/ Cardinality(matched) > 1
                         \/ MatchLabeled(nodes, "Instance", new_name) # {}
       IN /\ nodes' = IF refused THEN nodes
                      ELSE {IF n \in matched
                            THEN [n EXCEPT !.name = new_name, !.updated = TRUE]
                            ELSE n : n \in nodes}
          /\ callers' = [callers EXCEPT ![c].pc = "update", ![c].name = new_name]
    /\ UNCHANGED <<edges, flags, last>>

\* _update_node on the instance under its name of now
RaceUpdate(c) ==
    /\ callers[c].pc = "update"
    /\ nodes' = UpdateNode(nodes, callers[c].name, "Instance", NoProps)
    /\ Goes(c, "done", RaceResult("updated", 0, 1, 0, 0, FALSE))
    /\ UNCHANGED <<edges, flags, last>>

\* _create_node_with_merge
RaceMerge(c) ==
    /\ callers[c].pc = "merge"
    /\ LET merged == CreateNodeWithMerge(nodes, "Instance", callers[c].name,
                                         "Table", NoProps, {})
       IN /\ nodes' = merged.nodes
          /\ Goes(c, "rel_check", RaceResult(None, merged.nodes_created, 0, 0, 0, FALSE))
    /\ UNCHANGED <<edges, flags, last>>

\* the patterns of the IS_INSTANCE_OF relationship of caller c
InstancePattern(c) == Pattern("Instance", callers[c].name)

ConceptPattern(c) == Pattern(callers[c].concept_label, "Table")

\* create_relationship: the existence check
RaceRelCheck(c) ==
    /\ callers[c].pc = "rel_check"
    /\ \E exists \in RelCheck(nodes, edges, InstancePattern(c), ConceptPattern(c),
                              "IS_INSTANCE_OF") :
          IF exists
          THEN Goes(c, "done",
                    [callers[c].result EXCEPT !.auto_relationship_created = TRUE,
                                              !.relationship_status = "already_exists"])
          ELSE Goes(c, "rel_write", callers[c].result)
    /\ UNCHANGED <<nodes, edges, flags, last>>

\* create_relationship: MATCH (from) MATCH (to) CREATE (from)-[r]->(to)
RaceRelWrite(c) ==
    /\ callers[c].pc = "rel_write"
    /\ LET new == CreatedEdges(nodes, edges, InstancePattern(c), ConceptPattern(c),
                               "IS_INSTANCE_OF", FALSE)
       IN /\ edges' = AddEdges(edges, new)
          /\ Goes(c, "done",
                  [callers[c].result EXCEPT !.auto_relationship_created = TRUE,
                                            !.relationships_created = Cardinality(new)])
    /\ UNCHANGED <<nodes, flags, last>>

NextRace ==
    \E c \in Callers :
        \/ RaceStart(c)
        \/ DeleteLookup(c)
        \/ DeleteWrite(c)
        \/ CreateLookup(c)
        \/ RenameSource(c)
        \/ RenameCheck(c)
        \/ RenameSet(c)
        \/ RaceUpdate(c)
        \/ RaceMerge(c)
        \/ RaceRelCheck(c)
        \/ RaceRelWrite(c)

SpecRace == InitRace /\ [][NextRace]_vars

\* two callers made the same call
SameCall(c, d) ==
    /\ callers[c].fromPat = callers[d].fromPat
    /\ callers[c].toPat = callers[d].toPat
    /\ callers[c].type = callers[d].type

\* no two parallel edges of one type between an ordered pair of nodes
NoDuplicateEdge ==
    \A a \in nodes, b \in nodes, ty \in RelTypes :
        CountBetween(edges, a.id, ty, b.id) <= 1

C2_RaceDuplicates ==
    \A c \in Callers, d \in Callers :
        (/\ c # d /\ SameCall(c, d)
         /\ callers[c].pc = "done" /\ callers[d].pc = "done"
         /\ SingleMatch(nodes, callers[c].fromPat, callers[c].toPat)
         /\ callers[c].pre = 0 /\ callers[d].pre = 0) =>
            /\ flags.overlap
            /\ callers[c].result = WriteStats(1)
            /\ callers[d].result = WriteStats(1)
            /\ PairCount(nodes, edges, callers[c].fromPat, callers[c].toPat,
                         callers[c].type) >= 2

\* C2 witness: the interleaving happened; the store holds exactly two
\* edges of the type between the two nodes.
C2_Witness ==
    \E c \in Callers, d \in Callers :
        /\ c # d /\ SameCall(c, d)
        /\ callers[c].pc = "done" /\ callers[d].pc = "done"
        /\ SingleMatch(nodes, callers[c].fromPat, callers[c].toPat)
        /\ callers[c].pre = 0 /\ callers[d].pre = 0
        /\ PairCount(nodes, edges, callers[c].fromPat, callers[c].toPat,
                     callers[c].type) = 2

\* node identity `id` has a HAS_PROPERTY edge with required = true to a
\* property named x
DeclaresRequired(id, x) ==
    \E e \in DOMAIN edges :
        /\ e.type = "HAS_PROPERTY" /\ e.src = id /\ e.required
        /\ NodeOf(nodes, e.dst).name = x

\* the positions of the rows for property x in a sequence of rows
RowsFor(rows, x) == {i \in 1..Len(rows) : rows[i].property_name = x}

\* C7: for a concept C that declares X directly with required = true and
\* has an ancestor (SUBCLASS_OF+) that requires X too,
\* get_required_properties_for_concept(C, include_inherited = True) holds X
\* exactly once, as a direct property whose source is C.
C7_DirectOverridesInherited ==
    (last.op = "get_required_properties_for_concept" /\ last.include_inherited) =>
        \A c \in Match(nodes, last.concept_label, last.concept_name) :
            \A x \in ReqProperties :
                (/\ DeclaresRequired(c.id, x)
                 /\ \E a \in Ancestors(edges, c.id) : DeclaresRequired(a, x)) =>
                    /\ Cardinality(RowsFor(last.result, x)) = 1
                    /\ \A i \in RowsFor(last.result, x) :
                          last.result[i] = Row(x, "direct", c.name)

\* C7 witness: C declares p, and so does A, which C reaches only through B
\* (distance 2); the query returned p once.
C7_Witness ==
    /\ last.op = "get_required_properties_for_concept"
    /\ last.include_inherited
    /\ last.concept_name = "C" /\ last.concept_label = "Concept"
    /\ DeclaresRequired(3, "p") /\ DeclaresRequired(1, "p")
    /\ ~DeclaresRequired(2, "p")
    /\ CountBetween(edges, 3, "SUBCLASS_OF", 1) = 0
    /\ 1 \in Ancestors(edges, 3)
    /\ Cardinality(RowsFor(last.result, "p")) = 1

\* C8: validate_instance_properties reports as missing exactly the required
\* properties (those get_required_properties_for_concept returns) whose
\* names are not among the provided keys, all of them, and the validation
\* passes exactly when there is none.
C8_ValidateReportsAllMissing ==
    last.op = "validate_instance_properties" =>
        LET req == GetRequiredProperties(nodes, edges, last.concept_name,
                                         last.concept_label, last.include_inherited)
            absent == {i \in 1..Len(req) : req[i].property_name \notin last.provided}
            said == last.result.missing_properties
        IN /\ {said[i] : i \in 1..Len(said)} = {req[i] : i \in absent}
           /\ Len(said) = Cardinality(absent)
           /\ last.result.valid <=> (absent = {})

\* C8 witness: two required properties were missing and both are reported.
C8_Witness ==
    /\ last.op = "validate_instance_properties"
    /\ ~last.result.valid
    /\ PropertyNames(last.result.missing_properties) = {"p", "q"}

(***************************************************************************)
(* Properties of create_instance_node.                                     *)
(***************************************************************************)
\* the last step was a call of create_instance_node
Called == last.op = "create_instance_node"

\* that call left the graph as it found it
GraphUnchanged == nodes = last.before.nodes /\ edges = last.before.edges

\* the Instance nodes of a node set
Instances(N) == {n \in N : "Instance" \in n.labels}

\* the keys of a property dict, name excluded
ProvidedKeys(properties) == DOMAIN properties \ {"name"}

\* The properties required for the concept named concept_type, whatever
\* label its node carries: direct ones and those inherited by SUBCLASS_OF*,
\* net of overrides.
RequiredFor(N, E, concept_type) ==
    UNION {PropertyNames(GetRequiredProperties(N, E, concept_type, l, TRUE)) :
             l \in UNION {n.labels : n \in Match(N, None, concept_type)}}

\* C3: whenever create_instance_node with validate_required_properties =
\* True creates an Instance node, the provided keys (name excluded) include
\* every property required for concept_type, for every combination of the
\* other arguments.
C3_ValidatedCreateHasRequired ==
    (/\ Called
     /\ last.args.validate_required_properties
     /\ last.result.nodes_created = 1) =>
        RequiredFor(last.before.nodes, last.before.edges, last.args.concept_type)
            \subseteq ProvidedKeys(last.args.properties)

\* the (property, target) pairs of the ObjectProperty values of a dict whose
\* target has no Instance node in N
MissingPairs(N, properties) ==
    {[property |-> k, target |-> properties[k].items[j]] :
        <<k, j>> \in {x \in ProvidedKeys(properties) \X (1..3) :
                       /\ \E n \in N : /\ "Property" \in n.labels /\ n.name = x[1]
                                       /\ PropertyTypeOf(n) = "ObjectProperty"
                       /\ x[2] <= Len(properties[x[1]].items)
                       /\ Match(N, "Instance", properties[x[1]].items[x[2]]) = {}}}

\* the entries of a sequence
Range(s) == {s[i] : i \in 1..Len(s)}

\* the call was given an ObjectProperty target that does not exist, with
\* auto_create_object_property_relationships enabled
TargetMissing ==
    /\ Called
    /\ last.args.auto_create_object_property_relationships
    /\ MissingPairs(last.before.nodes, last.args.properties) # {}

\* the call failed with the error that lists every missing pair
ListsEveryMissingPair ==
    /\ last.result.status = "raised"
    /\ last.result.error = "ObjectProperty validation failed"
    /\ Range(last.result.missing_targets)
         = MissingPairs(last.before.nodes, last.args.properties)

\* C4 as stated: a call with a missing ObjectProperty target fails with the
\* error that lists every missing (property, target) pair and writes
\* nothing.
C4_AsStated == TargetMissing => (ListsEveryMissingPair /\ GraphUnchanged)

\* C4: a call with a missing ObjectProperty target fails and writes nothing:
\* no node created, no edge created or deleted.  The error lists every
\* missing (property, target) pair unless the concept check or the
\* required-property validation, which run first, have failed the call.
C4_MissingTargetRejected ==
    TargetMissing =>
        /\ last.result.status = "raised"
        /\ GraphUnchanged
        /\ \/ ListsEveryMissingPair
           \/ last.result.error \in {"does not exist", "Multiple nodes found",
                                     "Missing required properties"}

\* C4 witness: two targets of a list are missing and the error lists both.
C4_Witness ==
    /\ TargetMissing
    /\ ListsEveryMissingPair
    /\ Cardinality(MissingPairs(last.before.nodes, last.args.properties)) = 2
    /\ GraphUnchanged

\* C5: with auto_create_relationship = True, a call for a concept_type that
\* has no node (under concept_label, or under any label when the label is
\* left to detection) fails and creates no Instance node, with validation
\* on or off.
C5_MissingConceptRejected ==
    (/\ Called
     /\ last.args.auto_create_relationship
     /\ Match(last.before.nodes, last.args.concept_label,
              last.args.concept_type) = {}) =>
        /\ last.result.status = "raised"
        /\ last.result.error = "does not exist"
        /\ Instances(nodes) = Instances(last.before.nodes)
        /\ GraphUnchanged

\* C5 witness: validation was off, the properties complete, and the call
\* for the missing concept failed all the same.
C5_Witness ==
    /\ Called
    /\ last.args.auto_create_relationship
    /\ ~last.args.validate_required_properties
    /\ last.args.concept_type = "Ghost"
    /\ last.args.properties = Full("v1")
    /\ Match(last.before.nodes, "Instance", last.args.instance_name) = {}
    /\ last.result.status = "raised"
    /\ GraphUnchanged

\* C6: a call with allow_update = False for an instance that exists, no
\* other name requested and the precondition checks passing, returns
\* already_exists with nodes_created = 0 and auto_relationship_created =
\* False and writes nothing; and repeating a call that created an instance,
\* without allow_update, leaves the graph as it is.
C6_ExistingReturnedUnchanged ==
    Called =>
        /\ (/\ ~last.args.allow_update
            /\ Match(last.before.nodes, "Instance", last.args.instance_name) # {}
            /\ RequestedNewName(last.args.properties)
                 \in {None, last.args.instance_name}
            /\ last.result.status # "raised") =>
               /\ last.result.status = "already_exists"
               /\ last.result.nodes_created = 0
               /\ ~last.result.auto_relationship_created
               /\ GraphUnchanged
        /\ (/\ last.previous.op = "create_instance_node"
            /\ last.previous.result.nodes_created = 1
            /\ last.args = [last.previous.args EXCEPT !.allow_update = FALSE]) =>
               /\ last.result.status # "raised"
               /\ last.result.nodes_created = 0
               /\ GraphUnchanged

\* C6 witness: a call created i1 with an edge to its class and an edge to
\* i2, and its repetition came back with already_exists.
C6_Witness ==
    /\ Called
    /\ last.previous.op = "create_instance_node"
    /\ last.previous.result.nodes_created = 1
    /\ last.previous.result.relationships_created = 2
    /\ last.args = last.previous.args
    /\ ~last.args.allow_update
    /\ last.result.status = "already_exists"
    /\ GraphUnchanged

\* the call renamed an existing instance
Renamed ==
    /\ Called
    /\ last.result.status = "updated"
    /\ RequestedNewName(last.args.properties) \notin {None, last.args.instance_name}

\* the ObjectProperty edges the call replaced: those of the node's outgoing
\* edges to Instance nodes whose type is that of an ObjectProperty given in
\* the call
ReplacedByCall(e, id) ==
    /\ last.args.auto_create_object_property_relationships
    /\ e.src = id
    /\ "Instance" \in NodeOf(nodes, e.dst).labels
    /\ \E k \in ProvidedKeys(last.args.properties) :
          /\ e.type = RelationshipType(k)
          /\ \E n \in nodes : /\ "Property" \in n.labels /\ n.name = k
                              /\ PropertyTypeOf(n) = "ObjectProperty"

\* C9: a rename by create_instance_node with allow_update = True keeps every
\* incoming and outgoing edge of the node (same number, type and opposite
\* endpoint), the ObjectProperty edges replaced by the call apart; the node
\* is then found under the new name and no Instance under the old one.
C9_RenameKeepsEdges ==
    Renamed =>
        LET old == last.args.instance_name
            new == RequestedNewName(last.args.properties)
        IN /\ Match(nodes, "Instance", old) = {}
           /\ Match(last.before.nodes, "Instance", old) # {}
           /\ \A n \in Match(last.before.nodes, "Instance", old) :
                 /\ \E m \in Match(nodes, "Instance", new) : m.id = n.id
                 /\ \A e \in DOMAIN edges \cup DOMAIN last.before.edges :
                       ((e.src = n.id \/ e.dst = n.id) /\ ~ReplacedByCall(e, n.id)) =>
                          EdgeCount(edges, e) = EdgeCount(last.before.edges, e)

\* C9 witness: the renamed node had an edge to its class, an edge to another
\* instance and an edge from it, and has them under its new name.
C9_Witness ==
    /\ Renamed
    /\ \E n \in Match(nodes, "Instance", RequestedNewName(last.args.properties)) :
          /\ \E e \in DOMAIN edges : e.src = n.id /\ e.type = "IS_INSTANCE_OF"
          /\ \E e \in DOMAIN edges : e.src = n.id /\ e.type = "O"
          /\ \E e \in DOMAIN edges : e.dst = n.id /\ e.type = "O"
          /\ \A e \in DOMAIN edges :
                (e.src = n.id \/ e.dst = n.id) =>
                    EdgeCount(last.before.edges, e) = edges[e]

\* no two Instance nodes of N share a name
UniqueInstanceNames(N) ==
    \A n \in Instances(N), m \in Instances(N) : n.name = m.name => n.id = m.id

\* the call asked to rename an existing instance to the name of another one
RenameCollides ==
    /\ Called
    /\ last.args.allow_update
    /\ Match(last.before.nodes, "Instance", last.args.instance_name) # {}
    /\ RequestedNewName(last.args.properties) \notin {None, last.args.instance_name}
    /\ Match(last.before.nodes, "Instance",
             RequestedNewName(last.args.properties)) # {}

\* C10: a rename to a name another Instance carries fails and leaves both
\* nodes with their names, properties and edges; and a rename never makes
\* two Instance nodes share a name.
C10_RenameCollisionRejected ==
    /\ RenameCollides => (last.result.status = "raised" /\ GraphUnchanged)
    /\ (Renamed /\ UniqueInstanceNames(last.before.nodes)) =>
           UniqueInstanceNames(nodes)

\* C10 witness: the second of two renames in a row ran into the name in use
\* and failed on the collision check.
C10_Witness ==
    /\ RenameCollides
    /\ last.result.error = "already exists for label"
    /\ last.previous.op = "create_instance_node"
    /\ last.previous.result.status = "updated"
    /\ RequestedNewName(last.previous.args.properties)
         \notin {None, last.previous.args.instance_name}
    /\ GraphUnchanged

(***************************************************************************)
(* Properties of the deletion operations.                                  *)
(***************************************************************************)
\* the identities of a node set
Ids(S) == {n.id : n \in S}

\* the Object instances of the graph before the call that carry `name`
ObjectsBefore(name) ==
    {n \in last.before.nodes :
        "Instance" \in n.labels /\ n.name = name /\ n.instance_of = "Object"}

\* the ObjectField instances of (N, E) with an ISOBJECTFIELDOF edge to the
\* node o
FieldsOf(N, E, o) ==
    {f \in N :
        /\ "Instance" \in f.labels
        /\ f.instance_of = "ObjectField"
        /\ CountBetween(E, f.id, "ISOBJECTFIELDOF", o.id) > 0}

\* the graph is the graph before the call without the nodes `gone` and
\* without the edges at one of them; every other edge is as it was
RemovedExactly(gone) ==
    /\ nodes = last.before.nodes \ gone
    /\ DOMAIN edges = {e \in DOMAIN last.before.edges :
                          e.src \notin Ids(gone) /\ e.dst \notin Ids(gone)}
    /\ \A e \in DOMAIN edges : edges[e] = last.before.edges[e]

\* C11: delete_object_by_name on the name of one Object instance that has
\* k ObjectField instances linked to it by ISOBJECTFIELDOF edges removes
\* the object, the k fields and every edge at one of them, nothing else,
\* and reports status deleted, fields_count = k and nodes_deleted = k + 1.
C11_ObjectDeletedWithFields ==
    (last.op = "delete_object_by_name"
     /\ Cardinality(ObjectsBefore(last.args.object_name)) = 1) =>
        LET o == CHOOSE n \in ObjectsBefore(last.args.object_name) : TRUE
            fields == FieldsOf(last.before.nodes, last.before.edges, o)
        IN /\ RemovedExactly({o} \cup fields)
           /\ last.result.status = "deleted"
           /\ last.result.fields_count = Cardinality(fields)
           /\ last.result.nodes_deleted = Cardinality(fields) + 1

\* an object with two fields, one of them a field of a second object too,
\* and with a linked instance that is no field, was deleted
C11_Witness ==
    /\ last.op = "delete_object_by_name"
    /\ last.result.status = "deleted"
    /\ last.result.fields_count = 2
    /\ last.result.nodes_deleted = 3
    /\ \E n \in nodes : n.name = "t1"
    /\ \E n \in nodes : n.name = "o2"

\* the last step was one of the three deletion operations
Deleted ==
    last.op \in {"delete_instance_node", "delete_nodes_by_name", "delete_object_by_name"}

\* the Object instances the last call removed
ObjectsRemoved ==
    {o \in last.before.nodes \ nodes :
        "Instance" \in o.labels /\ o.instance_of = "Object"}

\* C12: whichever deletion operation removed an Object instance, no
\* ObjectField instance that had an ISOBJECTFIELDOF edge to it is left in
\* the graph.
C12_FieldsGoWithTheirObject ==
    Deleted =>
        \A o \in ObjectsRemoved :
            FieldsOf(last.before.nodes, last.before.edges, o) \cap nodes = {}

\* every edge joins two nodes of the graph
NoDanglingEdge ==
    \A e \in DOMAIN edges : e.src \in Ids(nodes) /\ e.dst \in Ids(nodes)

\* the nodes of the graph before the call that carry label Instance and
\* the name
InstancesBefore(name) ==
    {n \in last.before.nodes : "Instance" \in n.labels /\ n.name = name}

\* C13: no reachable state holds an edge without one of its endpoints.  A
\* delete_instance_node call that the store serves removes exactly the
\* nodes with label Instance and the name given, together with every edge
\* into and out of them, and reports deleted; when no Instance node has
\* the name, be it the name of a node of another label, the graph stays as
\* it was and the call ends as not found (status not_found, or the "not
\* found" exception under fail_if_not_found).
C13_DeletesOnlyNamedInstance ==
    /\ NoDanglingEdge
    /\ (last.op = "delete_instance_node" /\ ~last.args.store_fails) =>
          LET named == InstancesBefore(last.args.instance_name)
          IN IF named = {}
             THEN /\ GraphUnchanged
                  /\ IF last.args.fail_if_not_found
                     THEN last.result.status = "raised" /\ last.result.error = "not found"
                     ELSE last.result.status = "not_found"
             ELSE /\ RemovedExactly(named)
                  /\ last.result.status = "deleted"
                  /\ last.result.nodes_deleted = Cardinality(named)

\* o1 was deleted with its outgoing IS_INSTANCE_OF edge and its three
\* incoming ISOBJECTFIELDOF edges, while the class named Object, which a
\* delete_instance_node call would not find, is in the graph
C13_Witness ==
    /\ last.op = "delete_instance_node"
    /\ last.args.instance_name = "o1"
    /\ last.result.status = "deleted"
    /\ last.result.relationships_deleted = 4
    /\ \E n \in nodes : n.name = "Object" /\ "Instance" \notin n.labels

(***************************************************************************)
(* Properties of node creation.                                            *)
(***************************************************************************)
\* the labels the node-creating operations put first on a node
PrimaryLabels == {"Concept", "Instance", "Property"} \cup CustomLabels

\* C14: in every state reached by node-creating and deleting operations run
\* one at a time, no two nodes that share one of the primary labels carry
\* the same name, with and without the uniqueness constraints declared.
C14_NamesUniquePerLabel ==
    \A a \in nodes, b \in nodes :
        (a.name = b.name /\ a.labels \cap b.labels \cap PrimaryLabels # {}) => a = b

(***************************************************************************)
(* Properties of the ObjectProperty edges of an updated instance.          *)
(***************************************************************************)
\* the keys of the call's properties that name an ObjectProperty node of
\* the graph before the call
ObjectKeys ==
    {k \in ProvidedKeys(last.args.properties) :
        \E n \in last.before.nodes : /\ "Property" \in n.labels /\ n.name = k
                                     /\ PropertyTypeOf(n) = "ObjectProperty"}

\* the call updated an existing instance and replaced the edges of the
\* ObjectProperties it was given
Replaced ==
    /\ Called
    /\ last.result.status = "updated"
    /\ last.args.auto_create_object_property_relationships
    /\ ObjectKeys # {}

\* the name the updated instance has after the call
UpdatedName ==
    IF Renamed THEN RequestedNewName(last.args.properties)
    ELSE last.args.instance_name

\* the names of the nodes that the edges of `type` out of node identity id
\* lead to in the graph (N, E)
TargetsOf(N, E, id, type) ==
    {NodeOf(N, e.dst).name : e \in {x \in DOMAIN E : x.src = id /\ x.type = type}}

\* C15: after an update by create_instance_node (allow_update = True, the
\* instance exists) that replaces ObjectProperty edges, the instance's
\* outgoing edges of the relationship type of each ObjectProperty P given
\* in the call lead exactly to the target names given for P, one name or a
\* list, whatever edges of that type it had before.
C15_ReplaceSetsExactTargets ==
    Replaced =>
        /\ Match(nodes, "Instance", UpdatedName) # {}
        /\ \A n \in Match(nodes, "Instance", UpdatedName), k \in ObjectKeys :
              TargetsOf(nodes, edges, n.id, RelationshipType(k))
                  = Range(TargetNames(last.args.properties[k]))

\* the names of the ObjectProperty nodes of the graph before the call
ObjectPropertiesBefore ==
    {n.name : n \in {x \in last.before.nodes :
                        "Property" \in x.labels
                        /\ PropertyTypeOf(x) = "ObjectProperty"}}

\* the edge is held as often as before the call
SameCount(e) == EdgeCount(edges, e) = EdgeCount(last.before.edges, e)

\* C16: an update that replaces ObjectProperty edges leaves as they were
\* the instance's outgoing edges of the relationship type of every
\* ObjectProperty that the call does not name, and every edge that does
\* not start at the instance (its incoming edges and the edges of other
\* nodes), whatever the names of the properties are.
C16_OtherEdgesUntouched ==
    Replaced =>
        \A n \in Match(nodes, "Instance", UpdatedName) :
            \A e \in DOMAIN edges \cup DOMAIN last.before.edges :
                /\ e.src # n.id => SameCount(e)
                /\ (e.src = n.id
                    /\ \E p \in ObjectPropertiesBefore \ ObjectKeys :
                          e.type = RelationshipType(p)) => SameCount(e)

(***************************************************************************)
(* Properties of create_instance_node when relationship creation fails.    *)
(***************************************************************************)
\* the call is one that creates the Instance node: served without faults
\* it reports nodes_created = 1
CreatesNode ==
    /\ Called
    /\ \E out \in CreateInstanceNode(last.before.nodes, last.before.edges, last.args) :
          out.result.nodes_created = 1

\* the creation of the IS_INSTANCE_OF edge raised during the call
ClassificationFailed ==
    CreatesNode /\ last.args.auto_create_relationship /\ "IS_INSTANCE_OF" \in last.faults

\* the creation of an ObjectProperty edge raised during the call
TargetFailed ==
    /\ CreatesNode
    /\ last.args.auto_create_object_property_relationships
    /\ \E k \in ObjectKeys : RelationshipType(k) \in last.faults

\* C17: when the creation of the IS_INSTANCE_OF edge or of an
\* ObjectProperty edge raises after the Instance node has been created,
\* create_instance_node returns a result, the created node is in the
\* graph, and the result says what failed: auto_relationship_created is
\* False with a relationship_error, or there are entries without success
\* and object_properties_failed counts them.
C17_RelationshipFailureDegrades ==
    /\ (ClassificationFailed \/ TargetFailed) =>
          /\ last.result.status # "raised"
          /\ last.result.nodes_created = 1
          /\ Cardinality(Match(nodes, "Instance", last.args.instance_name)) = 1
          /\ Match(last.before.nodes, "Instance", last.args.instance_name) = {}
    /\ ClassificationFailed =>
          /\ ~last.result.auto_relationship_created
          /\ last.result.relationship_error # None
          /\ \A n \in Match(nodes, "Instance", last.args.instance_name) :
                TargetsOf(nodes, edges, n.id, "IS_INSTANCE_OF") = {}
    /\ TargetFailed =>
          /\ last.result.object_properties_failed > 0
          /\ last.result.object_properties_failed
                = Cardinality({i \in DOMAIN last.result.object_property_relationships :
                                 ~last.result.object_property_relationships[i].success})

\* both the IS_INSTANCE_OF edge and the ObjectProperty edge of a new
\* instance failed, and the instance is in the graph without an edge
C17_Witness ==
    /\ ClassificationFailed
    /\ TargetFailed
    /\ last.result.object_properties_failed = 1
    /\ \E n \in Match(nodes, "Instance", last.args.instance_name) :
          \A e \in DOMAIN edges : e.src # n.id /\ e.dst # n.id

(***************************************************************************)
(* Properties of delete_nodes_by_name.                                     *)
(***************************************************************************)
\* the positions of the list that the call gets to: all of them, or with
\* continue_on_error = False those up to the first one that fails
Attempted(names, continue_on_error, faults) ==
    IF continue_on_error \/ faults = {}
    THEN 1..Len(names)
    ELSE 1..(CHOOSE i \in faults : \A j \in faults : i <= j)

\* the positions among `attempted`, in list order, that do (failing = TRUE)
\* or do not fail
PositionsOf(names, attempted, faults, failing) ==
    SelectSeq([i \in 1..Len(names) |-> i],
              LAMBDA i : i \in attempted /\ ((i \in faults) <=> failing))

\* C18: delete_nodes_by_name goes through the names in list order and ends:
\* its results list has one entry per name handled without error, its
\* errors list one per name that raised, both in list order.  With
\* continue_on_error = True every name is attempted and processed +
\* len(errors) = total; with False nothing after the first failing name is
\* attempted.  A name that no Instance node carries when its turn comes has
\* status not_found in results and is no error, every other one deleted;
\* nodes_deleted is the number of nodes removed, all of them Instance nodes
\* whose name was handled without error.
C18_BatchDeleteInOrder ==
    last.op = "delete_nodes_by_name" =>
        LET names == last.args.names
            faults == last.args.faults
            r == last.result
            attempted == Attempted(names, last.args.continue_on_error, faults)
            served == PositionsOf(names, attempted, faults, FALSE)
            failed == PositionsOf(names, attempted, faults, TRUE)
            Had(i) ==
                /\ InstancesBefore(names[i]) # {}
                /\ \A j \in 1..(i - 1) : j \in faults \/ names[j] # names[i]
        IN /\ r.total = Len(names)
           /\ r.processed = Len(served)
           /\ Len(r.results) = Len(served)
           /\ Len(r.errors) = Len(failed)
           /\ \A k \in 1..Len(served) :
                 r.results[k] = [name |-> names[served[k]],
                                 status |-> IF Had(served[k])
                                            THEN "deleted" ELSE "not_found"]
           /\ \A k \in 1..Len(failed) : r.errors[k].name = names[failed[k]]
           /\ last.args.continue_on_error => r.processed + Len(r.errors) = r.total
           /\ r.nodes_deleted = Cardinality(last.before.nodes \ nodes)
           /\ RemovedExactly({n \in last.before.nodes :
                                /\ "Instance" \in n.labels
                                /\ \E k \in 1..Len(served) : n.name = names[served[k]]})

\* with continue_on_error = False the second of three names failed: the
\* first, f1, was deleted, and o2, the third, is still in the graph
C18_Witness ==
    /\ last.op = "delete_nodes_by_name"
    /\ ~last.args.continue_on_error
    /\ last.args.names = <<"f1", "Object", "o2">>
    /\ last.args.faults = {2}
    /\ last.result.results = <<[name |-> "f1", status |-> "deleted"]>>
    /\ Len(last.result.errors) = 1
    /\ last.result.nodes_deleted = 1
    /\ \E n \in nodes : n.name = "o2"

\* C19: a delete_instance_node call with the defaults of its signature,
\* served by the store, on a name that no Instance node carries returns
\* status not_found and leaves the graph as it was.
C19_MissingIsNotFoundByDefault ==
    (/\ last.op = "delete_instance_node"
     /\ ~last.args.store_fails
     /\ last.args.fail_if_not_found = DeleteInstanceDefaults.fail_if_not_found
     /\ InstancesBefore(last.args.instance_name) = {}) =>
        (last.result.status = "not_found" /\ GraphUnchanged)

(***************************************************************************)
(* Durability of the schema.                                               *)
(***************************************************************************)
\* the nodes labeled Concept, Class or Property
SchemaOf(N) == {n \in N : n.labels \cap {"Concept", "Class", "Property"} # {}}

\* an edge of the graph before the call that ties two schema nodes by
\* HAS_PROPERTY or SUBCLASS_OF
SchemaEdgeBefore(e) ==
    /\ e \in DOMAIN last.before.edges
    /\ e.type \in {"HAS_PROPERTY", "SUBCLASS_OF"}
    /\ {e.src, e.dst} \subseteq Ids(SchemaOf(last.before.nodes))

\* C20: no operation removes a node labeled Concept, Class or Property:
\* the schema nodes of the graph before a call are schema nodes after it,
\* and a deletion keeps every HAS_PROPERTY and SUBCLASS_OF edge between
\* schema nodes.
C20_SchemaIsDurable ==
    /\ last.op # None =>
          Ids(SchemaOf(last.before.nodes)) \subseteq Ids(SchemaOf(nodes))
    /\ Deleted =>
          \A e \in DOMAIN last.before.edges : SchemaEdgeBefore(e) => SameCount(e)
\* the nodes that carry the name the last auto_detect_domain_label call
\* asked for
NamedNodes == {n \in nodes : n.name = last.args.name}

\* label is the first entry of the priority list that node n carries
FirstPriorityLabel(n, label) ==
    \E i \in 1..Len(labels_to_constrain) :
        /\ labels_to_constrain[i] = label
        /\ label \in n.labels
        /\ \A j \in 1..(i - 1) : labels_to_constrain[j] \notin n.labels

\* n carries no label of the priority list
NoPriorityLabel(n) ==
    \A i \in 1..Len(labels_to_constrain) : labels_to_constrain[i] \notin n.labels

RequestedNames == {last.args.property_names[i] : i \in 1..Len(last.args.property_names)}

\* the Property nodes of the graph that carry the name
PropertyNodesNamed(name) == {n \in nodes : "Property" \in n.labels /\ n.name = name}

ConceptNodes == {n \in nodes : n.labels \cap {"Concept", "Class"} # {}}

\* the SUBCLASS_OF edges among the concepts contain a cycle: some concept
\* reaches itself over one such edge or more
SubclassCycle ==
    \E c \in ConceptNodes :
        \E w \in Trails(edges, c.id) :
            /\ Len(w) >= 2
            /\ w[Len(w)] = c.id
            /\ \A i \in 1..Len(w) : \E n \in ConceptNodes : n.id = w[i]

\* C23: whenever the SUBCLASS_OF edges among the concepts contain a cycle
\* of any length, a self-loop included, validate_ontology returns without
\* raising, with valid = False and a circular_subclass issue.
C23_CycleIsReported ==
    (last.op = "validate_ontology" /\ SubclassCycle) =>
        /\ ~last.result.raised
        /\ ~last.result.valid
        /\ "circular_subclass" \in last.result.issues
\* the last step was a call of check_property_inheritance that found its
\* labels: it was given them, or one node has the name
InheritanceChecked ==
    /\ last.op = "check_property_inheritance"
    /\ last.result.error \notin {"does not exist", "Multiple nodes found"}

\* the nodes the call's subclass and superclass arguments stand for
SubNodes == Match(nodes, last.args.subclass_label, last.args.subclass_name)

SuperNodes == Match(nodes, last.args.superclass_label, last.args.superclass_name)

\* sub reaches super by SUBCLASS_OF+
SubReachesSuper ==
    \E sub \in SubNodes, super \in SuperNodes : super.id \in Ancestors(edges, sub.id)

\* the Property nodes the nodes of S declare
DeclaredBy(S) ==
    {p \in nodes :
        /\ "Property" \in p.labels
        /\ \E c \in S : \E e \in HasPropertyEdges(edges, c.id) : e.dst = p.id}

\* the nodes of S and their ancestors
WithAncestors(S) ==
    S \cup {a \in nodes : \E c \in S : a.id \in Ancestors(edges, c.id)}

\* the properties reachable from super: declared on super or on an
\* ancestor of super
AvailableFromSuper == DeclaredBy(WithAncestors(SuperNodes))

\* C24: when sub does not reach super the result is inheritance_exists =
\* False; otherwise every property reachable from super is in exactly one
\* of inherited_properties and overridden_properties, total_inherited +
\* total_overridden = total_available_from_superclass, and a property is
\* overridden if and only if a concept other than super, among sub and
\* sub's ancestors, declares a property of the same name.
C24_InheritedOrOverridden ==
    InheritanceChecked =>
        IF ~SubReachesSuper
        THEN ~last.result.raised /\ ~last.result.inheritance_exists
        ELSE /\ ~last.result.raised
             /\ last.result.inheritance_exists
             /\ last.result.total_inherited + last.result.total_overridden
                  = last.result.total_available_from_superclass
             /\ last.result.total_inherited = Len(last.result.inherited_properties)
             /\ last.result.total_overridden = Len(last.result.overridden_properties)
             /\ PropertyNames(last.result.inherited_properties)
                  \cup PropertyNames(last.result.overridden_properties)
                  = {p.name : p \in AvailableFromSuper}
             /\ PropertyNames(last.result.inherited_properties)
                  \cap PropertyNames(last.result.overridden_properties) = {}
             /\ \A p \in AvailableFromSuper :
                   p.name \in PropertyNames(last.result.overridden_properties)
                     <=> \E q \in DeclaredBy(WithAncestors(SubNodes) \ SuperNodes) :
                            q.name = p.name
\* the last step was a call of get_concept_properties for a concept
\* labeled Concept or Class
ConceptPropertiesAsked ==
    /\ last.op = "get_concept_properties"
    /\ last.args.concept_label \in {"Concept", "Class"}

\* what get_required_properties_for_concept returns for the same arguments
RequiredForSame ==
    GetRequiredProperties(nodes, edges, last.args.concept_name, last.args.concept_label,
                          last.args.include_inherited)

\* C29: for a concept labeled Concept or Class and either value of
\* include_inherited, every property name that
\* get_required_properties_for_concept returns is also returned by
\* get_concept_properties, whose entries are tagged direct or inherited
\* with their source concept.
C29_RequiredAreConceptProperties ==
    ConceptPropertiesAsked =>
        /\ ~last.result.raised
        /\ PropertyNames(RequiredForSame) \subseteq PropertyNames(last.result.properties)
        /\ \A i \in 1..Len(last.result.properties) :
              /\ last.result.properties[i].inheritance_type \in {"direct", "inherited"}
              /\ \E c \in nodes : c.name = last.result.properties[i].source_concept
\* the required properties the last validate_instance_properties call was
\* not given
NotProvided ==
    PropertyNames(GetRequiredProperties(nodes, edges, last.concept_name,
                                        last.concept_label, last.include_inherited))
        \ last.provided

\* C26: when at least one required property is missing,
\* validate_instance_properties hands its caller a result: the call does
\* not raise, and the result has valid = False and lists the missing
\* properties.
C26_InvalidIsReturned ==
    (last.op = "validate_instance_properties" /\ NotProvided # {}) =>
        /\ ~last.result.raised
        /\ ~last.result.valid
        /\ PropertyNames(last.result.missing_properties) = NotProvided
\* the name the instance of the last call has after it
NameAfter ==
    IF RequestedNewName(last.args.properties) # None
    THEN RequestedNewName(last.args.properties)
    ELSE last.args.instance_name

\* the entries of the ObjectProperty relationships in the last result
Entries == last.result.object_property_relationships

\* an edge of relationship type `type` leads from the instance to an
\* Instance node named target
LinkedTo(type, target) ==
    \E n \in Match(nodes, "Instance", NameAfter), t \in Match(nodes, "Instance", target) :
        CountBetween(edges, n.id, type, t.id) > 0

\* the targets given in the last call: the positions <<k, j>> of the names
\* in the values of its ObjectProperty keys
GivenTargets ==
    {x \in ObjectKeys \X (1..3) : x[2] <= Len(last.args.properties[x[1]].items)}

\* C27: the call returns one entry per target; the entry of a target
\* that has no Instance node when the edges are created has success =
\* False, and an entry has success = True only if an edge of the
\* property's relationship type from the instance to that target exists
\* after the call.
C27_EntriesTellTheEdges ==
    (Called /\ last.result.status # "raised"
        /\ last.args.auto_create_object_property_relationships
        /\ last.result.status # "already_exists") =>
        /\ Len(Entries) = Cardinality(GivenTargets)
        /\ \A i \in 1..Len(Entries) :
              /\ Match(nodes, "Instance", Entries[i].target) = {} => ~Entries[i].success
              /\ Entries[i].success =>
                    LinkedTo(Entries[i].relationship_type, Entries[i].target)
(***************************************************************************)
(* Properties of the statements of create_instance_node.                   *)
(***************************************************************************)
\* the three checks of the call
PreChecks == {"concept", "required", "targets"}

\* the step writes to the store
Writes == nodes' # nodes \/ edges' # edges

\* the step is a check that fails the call
CheckFails == callers[1].pc \in PreChecks /\ callers'[1].pc = "done"

\* C25: in every execution of create_instance_node the concept check, the
\* required-property validation and the target check are complete before
\* the first write to the store, and a check that fails raises and leaves
\* the graph as the call found it.
C25_ChecksBeforeWrites ==
    [][/\ Writes => callers[1].checked = PreChecks
       /\ CheckFails =>
             /\ last'.result.status = "raised"
             /\ nodes' = callers[1].before.nodes
             /\ edges' = callers[1].before.edges]_vars

\* a call that passed the three checks has created the instance and its
\* two edges
C25_Witness ==
    /\ Called
    /\ last.checked = PreChecks
    /\ last.args.validate_required_properties
    /\ last.args.auto_create_relationship
    /\ last.args.auto_create_object_property_relationships
    /\ last.result.nodes_created = 1
    /\ last.result.relationships_created = 2
    /\ ~GraphUnchanged
\* the call reached its required-property validation, switched on
ValidationReached ==
    /\ Called
    /\ last.args.validate_required_properties
    /\ "concept" \in last.checked

\* the validation passed
ValidationPassed == "required" \in last.checked

\* the Data bucket: the provided keys, name excluded, that are not
\* classified as ObjectProperty
DataKeys == ProvidedKeys(last.args.properties) \ ObjectKeys

\* the properties required of the call's concept, under the label the
\* call holds for it
RequiredSeen ==
    PropertyNames(GetRequiredProperties(last.before.nodes, last.before.edges,
                                        last.args.concept_type, last.concept_label, TRUE))

\* no Instance node stores the key name as a typed property
NameNotStored == \A n \in Instances(nodes) : "name" \notin DOMAIN n.props

Wrote == last.op = "execute_write"

\* the store is as it was before the write
StoreUnchanged == Store(nodes, flags.constraints) = last.before

\* the result is the soft one: status already_exists, every counter 0 and
\* a warning
SoftResult ==
    /\ ResultGet(last.result, "status") = "already_exists"
    /\ \A k \in CounterKeys : ResultGet(last.result, k) = 0
    /\ "warning" \in DOMAIN last.result
    /\ last.result.warning # <<>>

\* C30: a write that violates a uniqueness constraint with an "already
\* exists" error does not raise from execute_write: it returns a result
\* with status already_exists, all counters 0 and a warning, which
\* was_skipped_due_to_constraint recognises, and the store is unchanged by
\* that write; any other constraint error and any other store failure is
\* raised, and a write without failure is neither raised nor skipped.  A
\* uniqueness constraint whose creation the store refuses is not reported
\* as created.
C30_AlreadyExistsIsSoft ==
    /\ (Wrote /\ last.failure = UniqueFailure) =>
          /\ ~last.raised
          /\ SoftResult
          /\ WasSkippedDueToConstraint(last.result)
          /\ StoreUnchanged
    /\ (Wrote /\ last.failure \notin {UniqueFailure, NoFailure}) =>
          /\ last.raised
          /\ last.error # <<>>
    /\ (Wrote /\ last.failure = NoFailure) =>
          /\ ~last.raised
          /\ ~WasSkippedDueToConstraint(last.result)
          /\ last.result.nodes_created = 1
    /\ last.op = "setup_uniqueness_constraints" =>
          \A i \in DOMAIN labels_to_constrain :
             LET label == labels_to_constrain[i]
             IN (label \notin last.before.constraints
                    /\ Duplicates(last.before.nodes, label)) =>
                   /\ label \notin flags.constraints
                   /\ \A j \in DOMAIN last.result.constraints_created :
                         last.result.constraints_created[j] # label

\* a second node Instance "a" was refused by the uniqueness constraint
\* declared after the first one was written, and the write came back soft
C30_Witness ==
    /\ Wrote
    /\ last.failure = UniqueFailure
    /\ last.args = [label |-> "Instance", name |-> "a"]
    /\ ~last.raised
    /\ SoftResult
    /\ Cardinality(nodes) = 1
    /\ StoreUnchanged

\* get_required_properties_for_concept was asked with the inherited
\* properties included
RequiredAsked == last.op = "get_required_properties_for_concept" /\ last.include_inherited

\* no concept is its own ancestor
Acyclic == \A n \in nodes : n.id \notin Ancestors(edges, n.id)

\* concept x declares a property of that name, required or optional
DeclaresName(x, name) ==
    \E e \in HasPropertyEdges(edges, x) : NodeOf(nodes, e.dst).name = name

\* x is closer to c than its ancestor a: c itself, or a concept on a
\* SUBCLASS_OF path from c to a
CloserThan(c, x, a) == x # a /\ (x = c \/ Through(edges, c, x, a))

\* the required declarations of the ancestors of c that a closer concept
\* declares again
Superseded(c) ==
    {e \in DOMAIN edges :
        /\ e.type = "HAS_PROPERTY"
        /\ e.required
        /\ e.src \in Ancestors(edges, c)
        /\ \E x \in {n.id : n \in nodes} :
              /\ CloserThan(c, x, e.src)
              /\ DeclaresName(x, NodeOf(nodes, e.dst).name)}

\* C31: a property that an ancestor A declares as required is not among
\* the required properties of C as inherited from A whenever a property of
\* the same name is declared, required or optional, on C itself or on a
\* concept between C and A.
C31_CloserDeclarationOverrides ==
    (RequiredAsked /\ Acyclic) =>
        \A c \in MatchLabeled(nodes, last.concept_label, last.concept_name) :
            \A e \in Superseded(c.id) :
                \A i \in DOMAIN last.result :
                    last.result[i] # Row(NodeOf(nodes, e.dst).name, "inherited",
                                         NodeOf(nodes, e.src).name)

\* the edges that leave node identity a, with their multiplicities
OutgoingOf(E, a) == [e \in {f \in DOMAIN E : f.src = a} |-> E[e]]

\* C32: create_instance_node called with allow_update=False never changes
\* a pre-existing Instance node: every Instance node that existed before
\* the call is there after it with the same properties and the same edges
\* leaving it, also when the properties carry a name key different from
\* instance_name.
C32_NoUpdateKeepsInstances ==
    (Called /\ ~last.args.allow_update) =>
        \A n \in Instances(last.before.nodes) :
            /\ n \in nodes
            /\ OutgoingOf(edges, n.id) = OutgoingOf(last.before.edges, n.id)

\* no property name stands in two rows
NamesOnce(rows) ==
    \A i \in DOMAIN rows, j \in DOMAIN rows :
        rows[i].property_name = rows[j].property_name => i = j

\* C33: get_required_properties_for_concept returns each property name at
\* most once, also when several parents or ancestors of the concept declare
\* the same required property; total_required and missing_properties of
\* validate_instance_properties count each property name once.
C33_EachNameOnce ==
    Acyclic =>
        /\ last.op = "get_required_properties_for_concept" => NamesOnce(last.result)
        /\ last.op = "validate_instance_properties" =>
              /\ NamesOnce(last.result.missing_properties)
              /\ last.result.total_required
                   = Cardinality(PropertyNames(
                        GetRequiredProperties(nodes, edges, last.concept_name,
                                              last.concept_label,
                                              last.include_inherited)))

\* every Instance node has an IS_INSTANCE_OF edge to a node labeled Concept
EveryInstanceClassified ==
    \A i \in Instances(nodes) :
        \E e \in DOMAIN edges :
            /\ e.src = i.id
            /\ e.type = "IS_INSTANCE_OF"
            /\ "Concept" \in NodeOf(nodes, e.dst).labels

\* C34: validate_ontology does not report as untyped the instances that
\* create_instance_node classified: an ontology built by the create
\* operations of the service, in which every instance has its
\* IS_INSTANCE_OF edge to a concept and SUBCLASS_OF has no cycle, is
\* reported with valid = TRUE and without the issue untyped_instances.
C34_BuiltOntologyIsValid ==
    (last.op = "validate_ontology" /\ EveryInstanceClassified /\ ~SubclassCycle) =>
        /\ last.result.valid
        /\ "untyped_instances" \notin last.result.issues

\* caller c is back from a create_instance_node call
Created(c) == callers[c].pc = "done" /\ callers[c].call.op = "create_instance_node"

\* C35: a create_instance_node result with auto_relationship_created = TRUE
\* means that the IS_INSTANCE_OF edge of the instance was created by the
\* call or was found in place by it, in every interleaving with the other
\* calls of the service on the same instance.
C35_FlagTellsTheEdge ==
    \A c \in Callers :
        (Created(c) /\ callers[c].result.auto_relationship_created) =>
            \/ callers[c].result.relationships_created >= 1
            \/ callers[c].result.relationship_status = "already_exists"

\* callers c and d are both back from delete_instance_node for one name,
\* an instance of the graph they started on, and nobody else has called
BothDeleted(c, d) ==
    /\ c # d
    /\ callers[c].pc = "done" /\ callers[d].pc = "done"
    /\ callers[c].call.op = "delete_instance_node"
    /\ callers[d].call.op = "delete_instance_node"
    /\ callers[c].call.instance_name = callers[d].call.instance_name
    /\ Match(RaceNodes, "Instance", callers[c].call.instance_name) # {}
    /\ \A x \in Callers \ {c, d} : callers[x].pc = "idle"

\* C36: when two delete_instance_node calls for the same existing instance
\* interleave, the node is deleted once: exactly one call reports deleted
\* with nodes_deleted = 1, the other one reports no_op or not found with
\* nodes_deleted = 0, and the instance is gone.
C36_DeletedOnce ==
    \A c \in Callers, d \in Callers :
        BothDeleted(c, d) =>
            LET r == callers[c].result
                s == callers[d].result
            IN /\ r.nodes_deleted + s.nodes_deleted = 1
               /\ (r.status = "deleted") # (s.status = "deleted")
               /\ \A x \in {r, s} :
                     IF x.status = "deleted" THEN x.nodes_deleted = 1
                     ELSE /\ x.status \in {"no_op", "not_found", "raised"}
                          /\ x.nodes_deleted = 0
               /\ Match(nodes, "Instance", callers[c].call.instance_name) = {}

\* both calls found i1 before either deleted it: one came back with
\* deleted, the other with no_op
C36_Witness ==
    \E c \in Callers, d \in Callers :
        /\ BothDeleted(c, d)
        /\ callers[c].result.status = "deleted"
        /\ callers[d].result.status = "no_op"

\* C37: in no interleaving of renames toward one new name, or of a rename
\* with a create_instance_node of that name, do two Instance nodes end up
\* with the same name.
C37_RenameKeepsNamesUnique ==
    \A n \in Instances(nodes), m \in Instances(nodes) : n.name = m.name => n = m

====
